---- MODULE Spec2Model ----
(***************************************************************************)
(* Verification development for the Jarvis orchestration engine.           *)
(*                                                                         *)
(* Sixteen specifications share this module:                               *)
(*   Spec     the verification graph of SkillsEngine (linter, executor,    *)
(*            think_agent) run on caller-supplied code;                    *)
(*   FairSpec the same graph, run to its end (weak fairness of its step);  *)
(*   SpecBus  EventBus.publish / EventBus.stream with an arbitrary         *)
(*            publisher;                                                   *)
(*   SpecJob  JobRunner.run_verification_job driving the graph and         *)
(*            publishing PipelineEvents;                                   *)
(*   SpecPar  plan_parallel_tasks, execute_parallel_worker and             *)
(*            aggregate_parallel_results;                                  *)
(*   SpecReq  the request graph of JarvisEngine.build with the router      *)
(*            JarvisRouter.classify;                                       *)
(*   SpecLib  calls of SkillLibrary.save_skill running in threads;         *)
(*   SpecStore    saves and deletes on SkillLibrary and SkillRegistry, one *)
(*                call after the other;                                    *)
(*   SpecApproval the skill retrieval, the approval decision and the save  *)
(*                of one chat request;                                     *)
(*   SpecSandbox  DockerSandbox: construction, execute and                 *)
(*                execute_with_packages;                                   *)
(*   SpecPending  PendingSkillManager: add, update, delete, get, list;     *)
(*   SpecFind     SkillLibrary.find_top_skills;                            *)
(*   SpecExtract  extract_code;                                            *)
(*   SpecRouter   repeated calls of JarvisRouter.classify;                 *)
(*   SpecShared   the EventBus with several streams on one job id;         *)
(*   SpecSession  two websocket requests and engine._task_callback.        *)
(*                                                                         *)
(* The graph state is the dict the stages read with state.get(key,         *)
(* default) and patch with their return value: a returned key overwrites   *)
(* the stored one, "messages" is appended.                                 *)
(***************************************************************************)
EXTENDS Integers, Sequences, FiniteSets, TLC

\* ------------------------------------------------------------------------
\* Bounds of the model
\* ------------------------------------------------------------------------
\* stage visits explored in one graph run (the code needs at most 8)
MaxSteps == 12

\* calls of EventBus.publish explored by the arbitrary publisher
MaxPublish == 3
\* calls of EventBus.stream explored
MaxStreams == 2
\* subtasks in the planner's answer
MaxTasks == 2
\* words in the classifier's answer
MaxTokens == 2
\* calls of SkillLibrary.save_skill explored
MaxSaves == 2
\* skills returned by the retrieval of one request
MaxRetrieved == 2
\* lines of the code handed to the sandbox
MaxLines == 2
\* ids handed out by add_pending_skill
MaxPending == 2
\* entries of the collection that find_top_skills queries
MaxEntries == 3
\* length of a fenced block, and fenced blocks in a text
MaxLen == 2
MaxBlocks == 2
\* calls of JarvisRouter.classify explored
MaxCalls == 2

\* status updates delivered to the websocket clients
MaxUpdates == 2

\* ------------------------------------------------------------------------
\* Values
\* ------------------------------------------------------------------------
None == "None"
END == "__end__"
\* a stage raised and nothing in the graph caught it
RAISED == "raised"

\* absence of a library entry
NoSkill == "NoSkill"
\* absence of the pending-skill file
NoPending == [exists |-> FALSE, name |-> "", code |-> "", notes |-> ""]
\* the name of the pending skill and the job's default name
SkillNames == {"skill", "Unknown"}

\* "" is "no code block extracted"; "dirty" is code ruff rejects
Codes == {"", "clean", "dirty"}

\* what the sandbox hands back, by how the process ended (exit code 0, a
\* non-zero exit code, killed on timeout by execute_code_locally) and by
\* whether the output text contains one of the error indicators; a timed-out
\* run whose partial output carries an indicator is scanned exactly like
\* "exit code 1 with Traceback" and is not listed apart
SandboxResults == {"output", "output with Traceback",
                   "exit code 1", "exit code 1 with Traceback",
                   "timed out"}

VARIABLES
  state,      \* AgentState of the verification run
  node,       \* the stage the graph runs next, END or RAISED
  visits,     \* number of runs of each stage in this graph run
  steps,      \* number of stage runs in this graph run
  ruff        \* whether the ruff executable is on the PATH

graphVars == <<state, node, visits, steps, ruff>>

VARIABLES
  channels,   \* EventBus.channels: job id -> the queue registered for it
  queues,     \* per queue object, every event put on it, in order
  qhead,      \* per queue object, how many of its events were taken by get()
  streams,    \* the calls of EventBus.stream: position, job id, queue, yields
  published   \* every event handed to EventBus.publish, in order

busVars == <<channels, queues, qhead, streams, published>>

VARIABLES
  job,        \* locals of run_verification_job and its position
  pending,    \* the pending-skill record of the job's skill_id, or NoPending
  library     \* skill library: name -> saved code, or NoSkill

jobVars == <<job, pending, library>>

VARIABLES
  plan,           \* the "plan" returned by plan_parallel_tasks
  par_pc,         \* position of the planner / aggregate_parallel_results
  workers,        \* per plan position, the execute_parallel_worker call
  results,        \* what asyncio.gather returned to the aggregator
  task_callback   \* engine._task_callback is set

parVars == <<plan, par_pc, workers, results, task_callback>>

VARIABLES
  req,            \* AgentState of a request in the graph of JarvisEngine.build
  router_llm      \* JarvisRouter.llm was initialised

reqVars == <<req, router_llm>>

VARIABLES
  collection,     \* the ChromaDB collection of the skill library: its records
  skill_files,    \* skills_dir: file name -> content, or NoSkill
  saves,          \* the calls of SkillLibrary.save_skill and their position
  upserts         \* the calls whose upsert reached the collection, in order

libVars == <<collection, skill_files, saves, upserts>>

VARIABLES
  registry,       \* SkillRegistry: the jarvis_tools index and library_dir
  approval,       \* one chat request: retrieved skills, decision, save
  sandbox,        \* a DockerSandbox object and the calls made on it
  pstore,         \* PendingSkillManager: pending_dir and the calls made on it
  finder,         \* a call of SkillLibrary.find_top_skills
  extraction,     \* a call of extract_code
  router_calls,   \* the calls of JarvisRouter.classify, in order
  sessions        \* the websocket requests that share engine._task_callback

utilVars == <<registry, approval, sandbox, pstore, finder, extraction, router_calls, sessions>>

vars == <<graphVars, busVars, jobVars, parVars, reqVars, libVars, utilVars>>

nonGraphVars == <<busVars, jobVars, parVars, reqVars, libVars, utilVars>>
nonBusVars == <<graphVars, jobVars, parVars, reqVars, libVars, utilVars>>
nonJobVars == <<parVars, reqVars, libVars, utilVars>>
nonParVars == <<graphVars, busVars, jobVars, reqVars, libVars, utilVars>>
nonReqVars == <<graphVars, busVars, jobVars, parVars, libVars, utilVars>>
nonLibVars == <<graphVars, busVars, jobVars, parVars, reqVars, utilVars>>
coreVars == <<graphVars, busVars, jobVars, parVars, reqVars>>

\* ------------------------------------------------------------------------
\* The verification graph (SkillsEngine)
\* ------------------------------------------------------------------------
max_retries == 3

\* lint_code_locally: success flag of ruff on the code, True when ruff is absent
lint_code_locally(code) == (~ruff) \/ code # "dirty"

\* a classification of the result by the exit code alone
has_error_by_exit_code(result) ==
  result \in {"exit code 1", "exit code 1 with Traceback"}

\* execute_code: any(indicator in result for indicator in error_indicators)
has_error(result) == result \in {"output with Traceback", "exit code 1 with Traceback"}

\* a conditional edge after the linter that ignores lint_error
check_lint_ignoring_errors(st) == "executor"

\* check_lint without its retry bound
check_lint_unbounded(st) ==
  IF st.lint_error # None THEN "think_agent" ELSE "executor"

\* conditional edge after the linter
check_lint(st) ==
  IF st.lint_error # None
    THEN IF st.retry_count < max_retries THEN "think_agent" ELSE END
    ELSE "executor"

\* check_verification_result without its retry bound
check_verification_result_unbounded(st) ==
  IF st.execution_error # None THEN "think_agent" ELSE END

\* conditional edge after the executor
check_verification_result(st) ==
  IF st.execution_error # None /\ st.retry_count < max_retries
    THEN "think_agent"
    ELSE END

\* message appended by a stage; code / error is what its text contains
Msg(kind, code, error) == [kind |-> kind, code |-> code, error |-> error]

\* run_verification: initial_state of a run on caller-supplied code
initial_state(code) ==
  [generated_code |-> code, retry_count |-> 0, lint_error |-> None,
   execution_error |-> None, execution_result |-> None, messages |-> <<>>]

\* reason_and_code: messages[-6:], the history put into the prompt
recent_messages(messages) ==
  SubSeq(messages, IF Len(messages) > 6 THEN Len(messages) - 5 ELSE 1, Len(messages))

Visit(n) ==
  /\ steps < MaxSteps
  /\ node = n
  /\ steps' = steps + 1
  /\ visits' = [visits EXCEPT ![n] = @ + 1]

\* stage "linter" and its conditional edge
G_lint_code ==
  /\ Visit("linter")
  /\ LET code == state.generated_code
         patched ==
           IF lint_code_locally(code)
             THEN [state EXCEPT !.lint_error = None]
             ELSE [state EXCEPT
                     !.lint_error = "lint_output",
                     !.retry_count = @ + 1,
                     !.messages = Append(@, Msg("lint_feedback", code, "lint_output"))]
     IN /\ state' = patched
        /\ node' = check_lint(patched)
  /\ UNCHANGED ruff

\* stage "executor" and its conditional edge
G_execute_code ==
  /\ Visit("executor")
  /\ UNCHANGED ruff
  /\ LET code == state.generated_code IN
     IF code = ""
       THEN LET patched == [state EXCEPT !.execution_result = "No code was generated.",
                                         !.execution_error = None]
            IN /\ state' = patched
               /\ node' = check_verification_result(patched)
       ELSE \/ \E result \in SandboxResults :
                 LET patched ==
                       IF has_error(result)
                         THEN [state EXCEPT
                                 !.execution_result = result,
                                 !.execution_error = result,
                                 !.retry_count = @ + 1,
                                 !.messages = Append(@, Msg("exec_feedback", None, result))]
                         ELSE [state EXCEPT
                                 !.execution_result = result,
                                 !.execution_error = None]
                 IN /\ state' = patched
                    /\ node' = check_verification_result(patched)
            \* engine.sandbox.execute_with_packages raises
            \/ /\ node' = RAISED
               /\ UNCHANGED state

\* stage "think_agent" and its edge to the linter
G_reason_and_code ==
  /\ Visit("think_agent")
  /\ UNCHANGED ruff
  /\ \/ \E code \in Codes :
          /\ state' = [state EXCEPT
                         !.generated_code = code,
                         !.messages = @ \o <<Msg("prompt", None, None),
                                             Msg("response", code, None)>>]
          /\ node' = "linter"
     \* engine.llm.run_agent_step raises
     \/ /\ node' = RAISED
        /\ UNCHANGED state

GraphInit ==
  /\ ruff \in BOOLEAN
  /\ \E code \in Codes : state = initial_state(code)
  /\ node = "linter"
  /\ visits = [n \in {"linter", "executor", "think_agent"} |-> 0]
  /\ steps = 0


\* ------------------------------------------------------------------------
\* The event bus (EventBus)
\* ------------------------------------------------------------------------
JobIds == {"job1", "job2"}
StreamIds == 1 .. MaxStreams
\* a stream creates at most one queue: the queue is named after it
NoQueue == 0

PipelineEvent(job_id, stage, type, timestamp) ==
  [job_id |-> job_id, stage |-> stage, type |-> type, timestamp |-> timestamp]

\* the loop exit test of stream with only its stage half
stream_stops_on_stage(event) == event.stage \in {"COMPLETED", "FAILED"}

\* EventBus.stream: the "stop streaming" test
stream_stops(event) ==
  /\ event.stage \in {"COMPLETED", "FAILED"}
  /\ event.type \in {"STEP_COMPLETE", "ERROR"}

\* a publish that waits until the job has a channel
B_publish_blocking(event) ==
  /\ channels[event.job_id] # NoQueue
  /\ published' = Append(published, event)
  /\ queues' = [queues EXCEPT ![channels[event.job_id]] = Append(@, event)]
  /\ UNCHANGED <<channels, qhead>>

\* EventBus.publish: put on the job's queue when the job has a channel
B_publish(event) ==
  /\ published' = Append(published, event)
  /\ IF channels[event.job_id] # NoQueue
       THEN queues' = [queues EXCEPT ![channels[event.job_id]] = Append(@, event)]
       ELSE UNCHANGED queues
  /\ UNCHANGED <<channels, qhead>>

\* the finally block of stream
B_teardown(job_id) == [channels EXCEPT ![job_id] = NoQueue]

\* stream up to its first queue.get(): subscribe creates the channel if absent
B_stream_subscribe(s, job_id) ==
  /\ streams[s].pc = "new"
  /\ IF channels[job_id] = NoQueue
       THEN /\ channels' = [channels EXCEPT ![job_id] = s]
            /\ streams' = [streams EXCEPT ![s] =
                 [@ EXCEPT !.pc = "waiting", !.job_id = job_id, !.queue = s]]
       ELSE /\ UNCHANGED channels
            /\ streams' = [streams EXCEPT ![s] =
                 [@ EXCEPT !.pc = "waiting", !.job_id = job_id,
                           !.queue = channels[job_id]]]
  /\ UNCHANGED <<queues, qhead, published>>

\* queue.get() returns an event and stream yields it
B_stream_yield(s) ==
  /\ streams[s].pc = "waiting"
  /\ LET q == streams[s].queue IN
       /\ qhead[q] < Len(queues[q])
       /\ qhead' = [qhead EXCEPT ![q] = @ + 1]
       /\ streams' = [streams EXCEPT ![s] =
            [@ EXCEPT !.pc = "yielded",
                      !.yielded = Append(@, queues[q][qhead[q] + 1])]]
  /\ UNCHANGED <<channels, queues, published>>

\* the consumer asks for the next item: stop test, then loop or tear down
B_stream_resume(s) ==
  /\ streams[s].pc = "yielded"
  /\ LET event == streams[s].yielded[Len(streams[s].yielded)] IN
       IF stream_stops(event)
         THEN /\ channels' = B_teardown(streams[s].job_id)
              /\ streams' = [streams EXCEPT ![s].pc = "done"]
         ELSE /\ UNCHANGED channels
              /\ streams' = [streams EXCEPT ![s].pc = "waiting"]
  /\ UNCHANGED <<queues, qhead, published>>

\* the client disconnects: the generator is cancelled or closed
B_stream_cancel(s) ==
  /\ streams[s].pc \in {"waiting", "yielded"}
  /\ channels' = B_teardown(streams[s].job_id)
  /\ streams' = [streams EXCEPT ![s].pc = "cancelled"]
  /\ UNCHANGED <<queues, qhead, published>>

BusInit ==
  /\ channels = [j \in JobIds |-> NoQueue]
  /\ queues = [q \in StreamIds |-> <<>>]
  /\ qhead = [q \in StreamIds |-> 0]
  /\ streams = [s \in StreamIds |->
                  [pc |-> "new", job_id |-> None, queue |-> NoQueue, yielded |-> <<>>]]
  /\ published = <<>>

\* an arbitrary publisher and consumers that open one stream per job id at a time
EventKinds == {<<"TESTING", "ERROR">>, <<"COMPLETED", "STEP_START">>,
               <<"COMPLETED", "STEP_COMPLETE">>, <<"FAILED", "ERROR">>}

Active(s) == streams[s].pc \in {"waiting", "yielded"}

publish ==
  /\ Len(published) < MaxPublish
  /\ \E j \in JobIds, k \in EventKinds :
       B_publish(PipelineEvent(j, k[1], k[2], Len(published) + 1))
  /\ UNCHANGED streams
  /\ UNCHANGED nonBusVars

stream_subscribe ==
  /\ \E s \in StreamIds, j \in JobIds :
       /\ \A t \in StreamIds : Active(t) => streams[t].job_id # j
       /\ B_stream_subscribe(s, j)
  /\ UNCHANGED nonBusVars

\* consumers that open a stream whether or not the job id has one already
shared_stream_subscribe ==
  /\ \E s \in StreamIds, j \in JobIds : B_stream_subscribe(s, j)
  /\ UNCHANGED nonBusVars

stream_yield == (\E s \in StreamIds : B_stream_yield(s)) /\ UNCHANGED nonBusVars
stream_resume == (\E s \in StreamIds : B_stream_resume(s)) /\ UNCHANGED nonBusVars
stream_cancel == (\E s \in StreamIds : B_stream_cancel(s)) /\ UNCHANGED nonBusVars


\* ------------------------------------------------------------------------
\* The job runner (JobRunner.run_verification_job)
\* ------------------------------------------------------------------------
TheJob == "job1"

\* Python truthiness of an optional string
Truthy(x) == x # None /\ x # ""

JobEvent(stage, type) == PipelineEvent(TheJob, stage, type, Len(published) + 1)

\* PendingSkillManager.update_pending_skill(skill_id, code=..., notes=...)
update_pending_skill(p, code, notes) ==
  IF ~p.exists THEN p ELSE [p EXCEPT !.code = code, !.notes = notes]

\* the start of the job: look the skill up, announce, set the locals
J_start ==
  /\ job.pc = "start"
  /\ B_publish(JobEvent("PLANNING", "STEP_START"))
  /\ job' = [job EXCEPT
               !.pc = "graph",
               !.skill_name = IF pending.exists THEN pending.name ELSE "Unknown",
               !.final_code = job.code,
               !.execution_error = None,
               !.lint_error = None]
  /\ UNCHANGED <<nonJobVars, streams, pending, library, graphVars>>

StageOf(n) ==
  CASE n = "linter" -> "LINTING"
    [] n = "executor" -> "TESTING"
    [] n = "think_agent" -> "REFINING"

\* on_chain_start of a stage
J_chain_start ==
  /\ job.pc = "graph"
  /\ job.phase = "start"
  /\ node \in {"linter", "executor", "think_agent"}
  /\ steps < MaxSteps
  /\ B_publish(JobEvent(StageOf(node), "STEP_START"))
  /\ job' = [job EXCEPT !.phase = "run"]
  /\ UNCHANGED <<nonJobVars, streams, pending, library, graphVars>>

\* where the job goes once a stage has ended
AfterStage(j) ==
  [j EXCEPT !.phase = "start",
            !.pc = IF node' = END THEN "finalize"
                   ELSE IF node' = RAISED THEN "except" ELSE "graph"]

\* the linter runs; on_chain_end of the linter
J_linter ==
  /\ job.pc = "graph" /\ job.phase = "run"
  /\ G_lint_code
  /\ IF node' = RAISED
       THEN UNCHANGED <<published, queues, channels, qhead>>
       ELSE B_publish(JobEvent("LINTING",
              IF Truthy(state'.lint_error) THEN "ERROR" ELSE "STEP_COMPLETE"))
  /\ job' = AfterStage([job EXCEPT !.lint_error = state'.lint_error])
  /\ UNCHANGED <<nonJobVars, streams, pending, library>>

\* the executor runs; on_chain_end of the executor
J_executor ==
  /\ job.pc = "graph" /\ job.phase = "run"
  /\ G_execute_code
  /\ IF node' = RAISED
       THEN /\ UNCHANGED <<published, queues, channels, qhead>>
            /\ job' = AfterStage(job)
       ELSE /\ B_publish(JobEvent("TESTING",
                 IF Truthy(state'.execution_error) THEN "ERROR" ELSE "STEP_COMPLETE"))
            /\ job' = AfterStage([job EXCEPT !.execution_error = state'.execution_error])
  /\ UNCHANGED <<nonJobVars, streams, pending, library>>

\* think_agent runs; on_chain_end of think_agent
J_think_agent ==
  /\ job.pc = "graph" /\ job.phase = "run"
  /\ G_reason_and_code
  /\ IF node' = RAISED
       THEN job' = AfterStage(job)
       ELSE job' = AfterStage([job EXCEPT !.final_code = state'.generated_code])
  /\ UNCHANGED <<nonJobVars, busVars, pending, library>>

\* a finalization that looks at execution_error alone
J_finalize_ignoring_lint ==
  /\ job.pc = "finalize"
  /\ IF Truthy(job.execution_error)
       THEN /\ B_publish(JobEvent("FAILED", "ERROR"))
            /\ pending' = update_pending_skill(pending, job.final_code,
                            job.execution_error)
            /\ job' = [job EXCEPT !.pc = "done"]
       ELSE /\ B_publish(JobEvent("COMPLETED", "STEP_START"))
            /\ UNCHANGED pending
            /\ job' = [job EXCEPT !.pc = "save"]
  /\ UNCHANGED <<nonJobVars, streams, library, graphVars>>

\* finalization: failed after retries, or announce the save
J_finalize ==
  /\ job.pc = "finalize"
  /\ IF Truthy(job.execution_error) \/ Truthy(job.lint_error)
       THEN /\ B_publish(JobEvent("FAILED", "ERROR"))
            /\ pending' = update_pending_skill(pending, job.final_code,
                            IF Truthy(job.execution_error)
                              THEN job.execution_error ELSE job.lint_error)
            /\ job' = [job EXCEPT !.pc = "done"]
       ELSE /\ B_publish(JobEvent("COMPLETED", "STEP_START"))
            /\ UNCHANGED pending
            /\ job' = [job EXCEPT !.pc = "save"]
  /\ UNCHANGED <<nonJobVars, streams, library, graphVars>>

\* J_save that reports nothing when save_skill fails
J_save_silent_failure ==
  /\ job.pc = "save"
  /\ \E success \in BOOLEAN :
       IF success
         THEN /\ library' = [library EXCEPT ![job.skill_name] = job.final_code]
              /\ pending' = NoPending
              /\ B_publish(JobEvent("COMPLETED", "STEP_COMPLETE"))
         ELSE UNCHANGED <<library, pending, published, queues, channels, qhead>>
  /\ job' = [job EXCEPT !.pc = "done"]
  /\ UNCHANGED <<nonJobVars, streams, graphVars>>

\* J_save that deletes the pending skill before it looks at the result
J_save_deleting_first ==
  /\ job.pc = "save"
  /\ pending' = NoPending
  /\ \E success \in BOOLEAN :
       IF success
         THEN /\ library' = [library EXCEPT ![job.skill_name] = job.final_code]
              /\ B_publish(JobEvent("COMPLETED", "STEP_COMPLETE"))
         ELSE /\ UNCHANGED library
              /\ B_publish(JobEvent("FAILED", "ERROR"))
  /\ job' = [job EXCEPT !.pc = "done"]
  /\ UNCHANGED <<nonJobVars, streams, graphVars>>

\* save_skill and what follows it
J_save ==
  /\ job.pc = "save"
  /\ \E success \in BOOLEAN :
       IF success
         THEN /\ library' = [library EXCEPT ![job.skill_name] = job.final_code]
              /\ pending' = NoPending
              /\ B_publish(JobEvent("COMPLETED", "STEP_COMPLETE"))
         ELSE /\ UNCHANGED <<library, pending>>
              /\ B_publish(JobEvent("FAILED", "ERROR"))
  /\ job' = [job EXCEPT !.pc = "done"]
  /\ UNCHANGED <<nonJobVars, streams, graphVars>>

\* except Exception: the handler of the job
J_except ==
  /\ job.pc = "except"
  /\ B_publish(JobEvent("FAILED", "ERROR"))
  /\ job' = [job EXCEPT !.pc = "done"]
  /\ UNCHANGED <<nonJobVars, streams, pending, library, graphVars>>

\* DELETE /skills/pending/{skill_id}
reject_skill ==
  /\ pending.exists
  /\ pending' = NoPending
  /\ UNCHANGED <<nonJobVars, job, library, busVars, graphVars>>

\* the consumer of GET /jobs/{job_id}/stream
JobStream == 1

job_stream_subscribe == B_stream_subscribe(JobStream, TheJob) /\ UNCHANGED nonBusVars
job_stream_yield == B_stream_yield(JobStream) /\ UNCHANGED nonBusVars
job_stream_resume == B_stream_resume(JobStream) /\ UNCHANGED nonBusVars
job_stream_cancel == B_stream_cancel(JobStream) /\ UNCHANGED nonBusVars

\* approve_skill has read the pending skill and scheduled the job
JobInit ==
  /\ ruff \in BOOLEAN
  /\ \E code \in Codes :
       /\ state = initial_state(code)
       /\ job = [pc |-> "start", phase |-> "start", code |-> code,
                 skill_name |-> "Unknown", final_code |-> code,
                 execution_error |-> None, lint_error |-> None]
       /\ pending = [exists |-> TRUE, name |-> "skill", code |-> code,
                     notes |-> "Auto-generated suggestion"]
  /\ node = "linter"
  /\ visits = [n \in {"linter", "executor", "think_agent"} |-> 0]
  /\ steps = 0
  /\ library = [n \in SkillNames |-> NoSkill]


\* ------------------------------------------------------------------------
\* The parallel path (plan_parallel_tasks, execute_parallel_worker,
\* aggregate_parallel_results)
\* ------------------------------------------------------------------------
TaskIds == {"task_1", "task_2"}
worker_max_retries == 1

\* the subtask lists the planning model may answer with: any ids, any length
SubtaskLists == UNION {[1 .. n -> TaskIds] : n \in 0 .. MaxTasks}

SubTask(id) == [id |-> id, status |-> "pending"]

NewWorker ==
  [pc |-> "created", retry_count |-> 0, gens |-> 0, execs |-> 0,
   status |-> None, calls |-> <<>>]

\* await status_callback(task['id'], status), when a callback is set
Notify(w, status) ==
  IF task_callback THEN [w EXCEPT !.calls = Append(@, status)] ELSE w

\* return {"id": task["id"], "status": status, ...}
Return(w, status) == [w EXCEPT !.pc = "returned", !.status = status]

\* a failed attempt: retry while retry_count < max_retries, else what is
\* given as the last resort
RetryOr(w, last) ==
  IF w.retry_count < worker_max_retries
    THEN [w EXCEPT !.retry_count = @ + 1, !.pc = "generate"]
    ELSE last

\* plan_parallel_tasks and route_after_planning
P_plan_parallel_tasks ==
  /\ par_pc = "planner"
  /\ \/ \* run_agent_step raises
        /\ par_pc' = "raised"
        /\ UNCHANGED plan
     \/ \* no JSON object, invalid JSON, or a subtask without "id"
        /\ plan' = <<>>
        /\ par_pc' = "think_agent"
     \/ \E parallel \in BOOLEAN, subtasks \in SubtaskLists :
          /\ plan' = IF parallel /\ Len(subtasks) > 1
                       THEN [i \in DOMAIN subtasks |-> SubTask(subtasks[i])]
                       ELSE <<>>
          /\ par_pc' = IF Len(plan') > 1 THEN "parallel_executor" ELSE "think_agent"
  /\ UNCHANGED <<workers, results, task_callback>>

\* aggregate_parallel_results up to the await of asyncio.gather
A_dispatch ==
  /\ par_pc = "parallel_executor"
  /\ workers' = [i \in DOMAIN plan |-> NewWorker]
  /\ par_pc' = "gather"
  /\ UNCHANGED <<plan, results, task_callback>>

\* execute_parallel_worker up to its first generation call
W_start(i) ==
  /\ workers[i].pc = "created"
  /\ workers' = [workers EXCEPT ![i] = [Notify(@, "running") EXCEPT !.pc = "generate"]]
  /\ UNCHANGED <<plan, par_pc, results, task_callback>>

\* one generation call of the worker and the extraction of its code
W_generate(i) ==
  /\ workers[i].pc = "generate"
  /\ LET w == [workers[i] EXCEPT !.gens = @ + 1] IN
       \/ \* run_agent_step raises: the exception leaves the worker
          workers' = [workers EXCEPT ![i] = [w EXCEPT !.pc = "raised"]]
       \/ \* no code block in the answer
          workers' = [workers EXCEPT ![i] = RetryOr(w, Return(w, "failed"))]
       \/ \* a code block
          workers' = [workers EXCEPT ![i] = [w EXCEPT !.pc = "execute"]]
  /\ UNCHANGED <<plan, par_pc, results, task_callback>>

\* one sandbox execution of the worker
W_execute(i) ==
  /\ workers[i].pc = "execute"
  /\ LET w == [workers[i] EXCEPT !.execs = @ + 1] IN
       \/ \E result \in SandboxResults :
            IF result \in {"output with Traceback", "exit code 1 with Traceback"}
              THEN workers' = [workers EXCEPT ![i] =
                     RetryOr(w, Return(Notify(w, "failed"), "failed"))]
              ELSE workers' = [workers EXCEPT ![i] =
                     Return(Notify(w, "complete"), "complete")]
       \/ \* the sandbox call raises inside the try block
          workers' = [workers EXCEPT ![i] =
            RetryOr(w, Return(Notify(w, "failed"), "failed"))]
  /\ UNCHANGED <<plan, par_pc, results, task_callback>>

WorkerResult(i) == [id |-> plan[i].id, status |-> workers[i].status]

\* a gather that hands back whatever has returned so far
A_gather_partial ==
  /\ par_pc = "gather"
  /\ \E i \in DOMAIN workers : workers[i].pc = "returned"
  /\ results' = [i \in DOMAIN workers |->
                   IF workers[i].pc = "returned" THEN WorkerResult(i)
                   ELSE [id |-> plan[i].id, status |-> "running"]]
  /\ par_pc' = "synthesis"
  /\ UNCHANGED <<plan, workers, task_callback>>

\* await asyncio.gather(*tasks): all results in plan order, or the first
\* exception of a worker
A_gather ==
  /\ par_pc = "gather"
  /\ \/ /\ \A i \in DOMAIN workers : workers[i].pc = "returned"
        /\ results' = [i \in DOMAIN workers |-> WorkerResult(i)]
        /\ par_pc' = "synthesis"
     \/ /\ \E i \in DOMAIN workers : workers[i].pc = "raised"
        /\ par_pc' = "raised"
        /\ UNCHANGED results
  /\ UNCHANGED <<plan, workers, task_callback>>

\* the synthesis call and the return of aggregate_parallel_results
A_synthesize ==
  /\ par_pc = "synthesis"
  /\ par_pc' \in {"done", "raised"}
  /\ UNCHANGED <<plan, workers, results, task_callback>>

ParInit ==
  /\ plan = <<>>
  /\ par_pc = "planner"
  /\ workers = <<>>
  /\ results = <<>>
  /\ task_callback \in BOOLEAN

ParIdle ==
  /\ plan = <<>>
  /\ par_pc = "idle"
  /\ workers = <<>>
  /\ results = <<>>
  /\ task_callback = FALSE

plan_parallel_tasks == P_plan_parallel_tasks /\ UNCHANGED nonParVars
aggregate_dispatch == A_dispatch /\ UNCHANGED nonParVars
worker_start == (\E i \in DOMAIN workers : W_start(i)) /\ UNCHANGED nonParVars
worker_generate == (\E i \in DOMAIN workers : W_generate(i)) /\ UNCHANGED nonParVars
worker_execute == (\E i \in DOMAIN workers : W_execute(i)) /\ UNCHANGED nonParVars
aggregate_gather == A_gather /\ UNCHANGED nonParVars
aggregate_synthesize == A_synthesize /\ UNCHANGED nonParVars


\* ------------------------------------------------------------------------
\* The request graph (JarvisEngine.build) and the router (JarvisRouter)
\* ------------------------------------------------------------------------
\* the classifier's answer, word by word: the two labels and anything else
Tokens == {"speed", "complex", "other"}
Responses == UNION {[1 .. n -> Tokens] : n \in 0 .. MaxTokens}

\* self.llm.invoke raises (or its content is no string), or returns content
ClassifierOutcomes ==
  {[raised |-> TRUE, content |-> <<>>]}
    \cup {[raised |-> FALSE, content |-> c] : c \in Responses}

NoResponse == [raised |-> FALSE, content |-> <<>>]

\* label in result
Contains(result, label) == \E i \in DOMAIN result : result[i] = label

\* classify that accepts a label only when it is the whole answer
classify_exact(llm, outcome) ==
  IF ~llm \/ outcome.raised THEN "complex"
  ELSE IF outcome.content = <<"speed">> THEN "speed"
  ELSE "complex"

\* a classify that falls back to 'complex' on every other call
classify_every_other_call(llm, outcome) ==
  IF Len(router_calls) % 2 = 1 THEN "complex"
  ELSE IF ~llm \/ outcome.raised THEN "complex"
  ELSE IF Contains(outcome.content, "speed") THEN "speed"
  ELSE "complex"

\* JarvisRouter.classify
classify(llm, outcome) ==
  IF ~llm THEN "complex"
  ELSE IF outcome.raised THEN "complex"
  ELSE IF Contains(outcome.content, "speed") THEN "speed"
  ELSE IF Contains(outcome.content, "complex") THEN "complex"
  ELSE "complex"

\* what should_parallelize reads in user_input: one of its keywords occurs,
\* the number of " and " and the number of commas; " and " contains "and"
UserInputs ==
  {u \in [keyword : BOOLEAN, and_count : 0 .. 1, comma_count : 0 .. 2] :
     u.and_count > 0 => u.keyword}

\* the planning model's answer: without a JSON object, with invalid JSON,
\* with a subtask that lacks "id" or "description", or a parsed object
PlannerAnswers ==
  {[kind |-> k, parallel |-> FALSE, subtasks |-> <<>>] :
     k \in {"no_json", "invalid_json"}}
    \cup {[kind |-> "malformed_subtask", parallel |-> par, subtasks |-> st] :
            par \in BOOLEAN, st \in SubtaskLists \ {<<>>}}
    \cup {[kind |-> "json", parallel |-> par, subtasks |-> st] :
            par \in BOOLEAN, st \in SubtaskLists}

NoAnswer == [kind |-> None, parallel |-> FALSE, subtasks |-> <<>>]

\* the plan of plan_parallel_tasks for any non-empty list of subtasks
plan_of_any(answer) ==
  IF answer.kind = "json" /\ answer.parallel /\ Len(answer.subtasks) > 0
    THEN [i \in DOMAIN answer.subtasks |-> SubTask(answer.subtasks[i])]
    ELSE <<>>

\* plan_parallel_tasks: the plan it returns for an answer of the model
plan_of(answer) ==
  IF answer.kind = "json" /\ answer.parallel /\ Len(answer.subtasks) > 1
    THEN [i \in DOMAIN answer.subtasks |-> SubTask(answer.subtasks[i])]
    ELSE <<>>

route_by_intent(st) ==
  IF st.intent_mode = "speed" THEN "speed_agent" ELSE "context_builder"

should_parallelize(st) ==
  IF st.user_input.keyword
       /\ (st.user_input.and_count > 0 \/ st.user_input.comma_count > 1)
    THEN "parallel_planner"
    ELSE "think_agent"

route_after_planning(st) ==
  IF st.plan # <<>> /\ Len(st.plan) > 1 THEN "parallel_executor" ELSE "think_agent"

\* what DockerSandbox.execute hands back: it has no timeout result
DockerResults == SandboxResults \ {"timed out"}

\* a stage of the request graph runs
Run(n) == req.node = n

\* the stage has run; next is where its edge leads
Ran(st, next) == [st EXCEPT !.node = next, !.path = Append(@, st.node)]

R_route_query ==
  /\ Run("router")
  /\ \E outcome \in ClassifierOutcomes :
       LET patched == [req EXCEPT
                         !.response = IF router_llm THEN outcome ELSE NoResponse,
                         !.intent_mode = classify(router_llm, outcome)]
       IN req' = Ran(patched, route_by_intent(patched))
  /\ UNCHANGED router_llm

R_speed_response ==
  /\ Run("speed_agent")
  /\ \/ req' = Ran(req, END)
     \* self.llm.run_agent_step raises
     \/ req' = Ran(req, RAISED)
  /\ UNCHANGED router_llm

R_build_context ==
  /\ Run("context_builder")
  /\ req' = Ran(req, should_parallelize(req))
  /\ UNCHANGED router_llm

R_plan_parallel_tasks ==
  /\ Run("parallel_planner")
  /\ \/ \E answer \in PlannerAnswers :
          LET patched == [req EXCEPT !.answer = answer,
                                     !.plan = @ \o plan_of(answer)]
          IN req' = Ran(patched, route_after_planning(patched))
     \* self.llm.run_agent_step raises
     \/ req' = Ran(req, RAISED)
  /\ UNCHANGED router_llm

R_reason_and_code ==
  /\ Run("think_agent")
  /\ \/ \E code \in Codes :
          req' = Ran([req EXCEPT !.generated_code = code], "executor")
     \* self.llm.run_agent_step raises
     \/ req' = Ran(req, RAISED)
  /\ UNCHANGED router_llm

R_execute_code ==
  /\ Run("executor")
  /\ IF req.generated_code = ""
       THEN req' = Ran([req EXCEPT !.execution_result = "No code was generated."], END)
       ELSE \E result \in DockerResults :
              req' = Ran([req EXCEPT !.execution_result = result], END)
  /\ UNCHANGED router_llm

\* the parallel executor as one step: it returns or a worker's exception
\* leaves it
R_aggregate_parallel_results ==
  /\ Run("parallel_executor")
  /\ \/ req' = Ran(req, END)
     \/ req' = Ran(req, RAISED)
  /\ UNCHANGED router_llm

\* graph.astream_events({"user_input": text_input, "user_id": session_id})
ReqInit ==
  /\ router_llm \in BOOLEAN
  /\ \E u \in UserInputs :
       req = [node |-> "router", path |-> <<>>, user_input |-> u,
              response |-> NoResponse, intent_mode |-> None,
              answer |-> NoAnswer, plan |-> <<>>,
              generated_code |-> "", execution_result |-> None]

\* no request is in the graph
ReqIdle ==
  /\ router_llm = FALSE
  /\ req = [node |-> END, path |-> <<>>,
            user_input |-> [keyword |-> FALSE, and_count |-> 0, comma_count |-> 0],
            response |-> NoResponse, intent_mode |-> None,
            answer |-> NoAnswer, plan |-> <<>>,
            generated_code |-> "", execution_result |-> None]

route_query == R_route_query /\ UNCHANGED nonReqVars
speed_response == R_speed_response /\ UNCHANGED nonReqVars
build_context == R_build_context /\ UNCHANGED nonReqVars
request_plan_parallel_tasks == R_plan_parallel_tasks /\ UNCHANGED nonReqVars
request_reason_and_code == R_reason_and_code /\ UNCHANGED nonReqVars
request_execute_code == R_execute_code /\ UNCHANGED nonReqVars
request_aggregate_parallel_results ==
  R_aggregate_parallel_results /\ UNCHANGED nonReqVars

\* ------------------------------------------------------------------------
\* The skill library (SkillLibrary.save_skill)
\* ------------------------------------------------------------------------
SaveIds == 1 .. MaxSaves
\* save_skill is called with code that is not empty
SavedCodes == Codes \ {""}

\* absence of the file {name}.md
NoFile == [exists |-> FALSE, name |-> "", code |-> ""]

\* the legacy format written by save_skill: "# {name} ... ```python {code} ```"
legacy_content(name, code) == [exists |-> TRUE, name |-> name, code |-> code]

\* an upsert that adds a record and keeps the ones already there
upsert_append(coll, name, code) == coll \cup {[id |-> name, code |-> code]}

\* collection.upsert(ids=[name], metadatas=[{"code": code, "name": name}])
upsert(coll, name, code) ==
  {r \in coll : r.id # name} \cup {[id |-> name, code |-> code]}

NewSave == [pc |-> "new", name |-> "", code |-> ""]

\* save_skill up to and including _upsert_to_db
L_upsert(k) ==
  /\ saves[k].pc = "new"
  /\ \E name \in SkillNames, code \in SavedCodes :
       \/ /\ collection' = upsert(collection, name, code)
          /\ upserts' = Append(upserts, k)
          /\ saves' = [saves EXCEPT ![k] = [pc |-> "upserted", name |-> name,
                                             code |-> code]]
       \* the collection is not initialised or the upsert raises: return False
       \/ /\ saves' = [saves EXCEPT ![k] = [pc |-> "failed", name |-> name,
                                             code |-> code]]
          /\ UNCHANGED <<collection, upserts>>
  /\ UNCHANGED skill_files

\* save_skill from the mkdir to its return
L_write(k) ==
  /\ saves[k].pc = "upserted"
  /\ \/ /\ skill_files' = [skill_files EXCEPT ![saves[k].name] =
                               legacy_content(saves[k].name, saves[k].code)]
        /\ saves' = [saves EXCEPT ![k].pc = "done"]
     \* mkdir or write_text raises: return False
     \/ /\ saves' = [saves EXCEPT ![k].pc = "failed"]
        /\ UNCHANGED skill_files
  /\ UNCHANGED <<collection, upserts>>

LibInit ==
  /\ collection = {}
  /\ skill_files = [n \in SkillNames |-> NoFile]
  /\ saves = [k \in SaveIds |-> NewSave]
  /\ upserts = <<>>

\* save_skill is not called through asyncio.to_thread in this specification
LibIdle ==
  /\ collection = {}
  /\ skill_files = [n \in SkillNames |-> NoFile]
  /\ saves = [k \in SaveIds |-> [pc |-> "done", name |-> "", code |-> ""]]
  /\ upserts = <<>>

save_skill_upsert == (\E k \in SaveIds : L_upsert(k)) /\ UNCHANGED nonLibVars
save_skill_write == (\E k \in SaveIds : L_write(k)) /\ UNCHANGED nonLibVars

\* ------------------------------------------------------------------------
\* Saves and deletes on the skill stores, one call after the other
\* (SkillLibrary.save_skill / delete_skill, SkillRegistry.save_skill /
\* sync_library, the route delete_library_skill)
\* ------------------------------------------------------------------------
\* what _parse_skill_file makes of a file of library_dir: a ToolDefinition
\* named after the file, or None (no function in it, or a syntax error)
RegistryCodes == {"tool", "no tool"}
\* library_dir has no file {name}.py
NoPy == "absent"

\* collection.delete(ids=[name])
collection_delete(coll, name) == {r \in coll : r.id # name}

\* SkillLibrary.save_skill, the whole call
S_save_skill ==
  /\ \E name \in SkillNames, code \in SavedCodes :
       \* returns True
       \/ /\ collection' = upsert(collection, name, code)
          /\ skill_files' = [skill_files EXCEPT ![name] = legacy_content(name, code)]
       \* mkdir or write_text raises after the upsert: returns False
       \/ /\ collection' = upsert(collection, name, code)
          /\ UNCHANGED skill_files
       \* the collection is None or the upsert raises: returns False
       \/ UNCHANGED <<collection, skill_files>>
  /\ UNCHANGED <<saves, upserts, registry>>

\* SkillLibrary.delete_skill, the whole call
S_delete_skill ==
  /\ \E name \in SkillNames :
       \* returns True; unlink only when the file exists
       \/ /\ collection' = collection_delete(collection, name)
          /\ skill_files' = [skill_files EXCEPT ![name] = NoFile]
       \* unlink raises after the delete from the collection: returns False
       \/ /\ skill_files[name].exists
          /\ collection' = collection_delete(collection, name)
          /\ UNCHANGED skill_files
       \* the collection is None or its delete raises: returns False
       \/ UNCHANGED <<collection, skill_files>>
  /\ UNCHANGED <<saves, upserts, registry>>

\* SkillRegistry.sync_library: one upsert per file that parses to a tool; ids
\* already in the index whose file is gone are left in it
sync_library(reg) ==
  IF ~reg.connected THEN reg
  ELSE [reg EXCEPT !.tools = reg.tools \cup
                      {n \in SkillNames : reg.library_dir[n] = "tool"}]

\* SkillRegistry.save_skill, the whole call
S_registry_save_skill ==
  /\ \E name \in SkillNames, code \in RegistryCodes :
       LET written == [registry EXCEPT !.library_dir[name] = code] IN
         \* returns True
         \/ registry' = sync_library(written)
         \* the upsert of sync_library raises after the write: returns False
         \/ registry' = written
         \* open raises: returns False
         \/ registry' = registry
  /\ UNCHANGED libVars

\* the route DELETE /skills/library/{skill_name}
S_delete_library_skill ==
  /\ \E name \in SkillNames :
       \* os.remove; the re-sync of the registry is commented out
       \/ /\ registry.library_dir[name] # NoPy
          /\ registry' = [registry EXCEPT !.library_dir[name] = NoPy]
       \* 404 when the file is absent, 500 when os.remove raises
       \/ registry' = registry
  /\ UNCHANGED libVars

\* SkillRegistry.__init__ of a restarted process: the initial sync
S_registry_restart ==
  /\ \E connected \in BOOLEAN :
       registry' = sync_library([registry EXCEPT !.connected = connected])
  /\ UNCHANGED libVars

StoreInit ==
  /\ registry = [connected |-> TRUE, tools |-> {},
                 library_dir |-> [n \in SkillNames |-> NoPy]]

RegistryIdle ==
  /\ registry = [connected |-> FALSE, tools |-> {},
                 library_dir |-> [n \in SkillNames |-> NoPy]]

nonStoreVars == <<coreVars, approval, sandbox, pstore, finder, extraction, router_calls, sessions>>

library_save_skill == S_save_skill /\ UNCHANGED nonStoreVars
library_delete_skill == S_delete_skill /\ UNCHANGED nonStoreVars
registry_save_skill == S_registry_save_skill /\ UNCHANGED nonStoreVars
delete_library_skill == S_delete_library_skill /\ UNCHANGED nonStoreVars
registry_restart == S_registry_restart /\ UNCHANGED nonStoreVars

\* ------------------------------------------------------------------------
\* Skill deduplication of one chat request (JarvisEngine.reason_and_code,
\* JarvisEngine.execute_code, the save in the websocket route)
\* ------------------------------------------------------------------------
\* code with and without surrounding whitespace
PaddedCodes == {"clean", "clean\n", "dirty", "dirty\n"}

\* str.strip
strip(code) ==
  IF code = "clean\n" THEN "clean"
  ELSE IF code = "dirty\n" THEN "dirty"
  ELSE code

\* what find_top_skills(user_input, n=3, threshold=1.2) can return: the codes
\* of the retrieved skills, nearest first
RetrievedLists == UNION {[1 .. k -> PaddedCodes] : k \in 0 .. MaxRetrieved}

\* reason_and_code: the retrieval, existing_skill_code and the generated code
D_reason_and_code ==
  /\ approval.pc = "think_agent"
  /\ \E relevant_skills \in RetrievedLists, code \in PaddedCodes \cup {""} :
       approval' = [approval EXCEPT
                      !.pc = "executor",
                      !.relevant_skills = relevant_skills,
                      \* relevant_skills[0]['code'], or None
                      !.existing_skill_code =
                         IF relevant_skills # <<>> THEN relevant_skills[1] ELSE None,
                      !.generated_code = code]

\* the skip_approval of execute_code
skip_approval(existing_skill, code) ==
  IF existing_skill \notin {None, ""}
  THEN strip(existing_skill) = strip(code)
  ELSE FALSE

\* execute_code: no "skill_approved" key is returned when there is no code
D_execute_code ==
  /\ approval.pc = "executor"
  /\ approval' = [approval EXCEPT
                    !.pc = "route",
                    !.skill_approved =
                       IF approval.generated_code = "" THEN FALSE
                       ELSE skip_approval(approval.existing_skill_code,
                                          approval.generated_code)]

\* the route: skill_data is captured when the executor's output is not
\* approved, and save_skill is started when generated_code is not empty
D_save ==
  /\ approval.pc = "route"
  /\ approval' = [approval EXCEPT
                    !.pc = "done",
                    !.saved = ~approval.skill_approved
                                /\ approval.generated_code # ""]

NewRequest == [pc |-> "think_agent", relevant_skills |-> <<>>,
               existing_skill_code |-> None, generated_code |-> "",
               skill_approved |-> FALSE, saved |-> FALSE]

ApprovalInit == approval = NewRequest

ApprovalIdle == approval = [NewRequest EXCEPT !.pc = "done"]

nonApprovalVars ==
  <<coreVars, libVars, registry, sandbox, pstore, finder, extraction, router_calls, sessions>>

approval_reason_and_code == D_reason_and_code /\ UNCHANGED nonApprovalVars
approval_execute_code == D_execute_code /\ UNCHANGED nonApprovalVars
approval_save == D_save /\ UNCHANGED nonApprovalVars

\* ------------------------------------------------------------------------
\* The Docker sandbox (DockerSandbox.__init__, execute, install_package,
\* execute_with_packages)
\* ------------------------------------------------------------------------
\* what docker.from_env and client.containers.get do during construction
DockerStates == {"client raises", "running", "not found", "get raises",
                 "restarting", "stopped, restarted", "stopped, restart raises"}

\* DockerSandbox.__init__: docker.from_env() runs before the try statement
construct(docker) ==
  IF docker = "client raises" THEN [pc |-> RAISED, container |-> FALSE]
  ELSE IF docker \in {"not found", "get raises", "restarting"}
  THEN [pc |-> "ready", container |-> FALSE]
  ELSE [pc |-> "ready", container |-> TRUE]

\* three of the keys of package_map, and a name that is no key
ImportNames == {"pandas", "pd", "cv2", "os"}

\* package_map, restricted to ImportNames
package_map ==
  [imp \in {"pandas", "pd", "cv2"} |->
     IF imp = "cv2" THEN "opencv-python" ELSE "pandas"]

\* a line of the code: "import m" or "from m import x" at column 0, or an
\* indented import statement
Lines == [module : ImportNames, form : {"import", "from", "indented import"}]
Programs == UNION {[1 .. k -> Lines] : k \in 0 .. MaxLines}

\* re.findall(r'^(?:from|import)\s+(\w+)', code, re.MULTILINE)
imports(code) ==
  {code[i].module : i \in {j \in DOMAIN code : code[j].form \in {"import", "from"}}}

\* a lookup that installs an unmapped import under its own name
packages_to_install_guessing(code) ==
  {IF imp \in DOMAIN package_map THEN package_map[imp] ELSE imp : imp \in imports(code)}

\* packages_to_install of execute_with_packages
packages_to_install(code) ==
  {package_map[imp] : imp \in imports(code) \cap DOMAIN package_map}

\* the orders in which a for loop can visit a set
Orders(S) ==
  {s \in [1 .. Cardinality(S) -> S] : \A i, j \in DOMAIN s : i # j => s[i] # s[j]}

\* what execute returns: the container's answers, "not connected" without a
\* container, "system error" when exec_run raises
ExecuteResults(container) ==
  IF container THEN DockerResults \cup {"system error"} ELSE {"not connected"}

\* what install_package returns
InstallResults(container) ==
  IF container THEN {"installed", "failed", "error"} ELSE {"not connected"}

\* DockerSandbox()
X_construct ==
  /\ sandbox.pc = "new"
  /\ \E docker \in DockerStates :
       sandbox' = [sandbox EXCEPT !.pc = construct(docker).pc,
                                  !.container = construct(docker).container,
                                  !.docker = docker]

\* sandbox.execute(code)
X_execute ==
  /\ sandbox.pc = "ready"
  /\ \E result \in ExecuteResults(sandbox.container) :
       sandbox' = [sandbox EXCEPT
                     !.call = "execute",
                     !.calls = <<[method |-> "execute", arg |-> "code",
                                  result |-> result]>>,
                     !.result = result]

\* sandbox.execute_with_packages(code), the whole call: one install_package
\* per package, in the order of the set, then execute
X_execute_with_packages ==
  /\ sandbox.pc = "ready"
  /\ LET code == sandbox.code IN
       \E order \in Orders(packages_to_install(code)) :
         \E outcome \in [DOMAIN order -> InstallResults(sandbox.container)],
            result \in ExecuteResults(sandbox.container) :
           sandbox' = [sandbox EXCEPT
                         !.call = "execute_with_packages",
                         !.calls =
                            [i \in DOMAIN order |->
                               [method |-> "install_package", arg |-> order[i],
                                result |-> outcome[i]]]
                            \o <<[method |-> "execute", arg |-> "code",
                                  result |-> result]>>,
                         !.result = result]

\* call: the method the caller called last; calls: the calls that method
\* made on the sandbox, in order
NewSandbox == [pc |-> "new", docker |-> "running", container |-> FALSE,
               code |-> <<>>, call |-> None, calls |-> <<>>, result |-> None]

\* the code the caller passes to the sandbox is drawn here
SandboxInit == \E code \in Programs : sandbox = [NewSandbox EXCEPT !.code = code]

SandboxIdle == sandbox = [NewSandbox EXCEPT !.pc = "closed"]

nonSandboxVars ==
  <<coreVars, libVars, registry, approval, pstore, finder, extraction, router_calls, sessions>>

sandbox_construct == X_construct /\ UNCHANGED nonSandboxVars
sandbox_execute == X_execute /\ UNCHANGED nonSandboxVars
sandbox_execute_with_packages == X_execute_with_packages /\ UNCHANGED nonSandboxVars

\* ------------------------------------------------------------------------
\* The pending store (PendingSkillManager)
\* ------------------------------------------------------------------------
\* the ids uuid4 hands out, in the order it hands them out
PendingIds == 1 .. MaxPending

\* pending_dir has no file {skill_id}.json
NoRecord == [exists |-> FALSE, id |-> 0, name |-> "", code |-> "",
             description |-> "", status |-> "", created_at |-> 0, notes |-> ""]

\* the optional arguments of update_pending_skill; None is "not passed"
UpdateArgs == [code : {None, "dirty"}, name : {None, "Unknown"},
               description : {None, "refined"}, notes : {None, "edited"}]
NoArgs == [code |-> None, name |-> None, description |-> None, notes |-> None]

\* get_pending_skill: the record of the file, None without a file
get_pending_skill(dir, skill_id) ==
  IF skill_id \in DOMAIN dir /\ dir[skill_id].exists THEN dir[skill_id] ELSE NoRecord

\* sorted(skills, key=created_at, reverse=True)
RECURSIVE sorted_newest_first(_)
sorted_newest_first(skills) ==
  IF skills = {} THEN <<>>
  ELSE LET first == CHOOSE x \in skills :
                      \A y \in skills : y.created_at <= x.created_at
       IN <<first>> \o sorted_newest_first(skills \ {first})

\* list_pending_skills: every *.json of pending_dir, newest first
list_pending_skills(dir) ==
  sorted_newest_first({dir[i] : i \in {j \in DOMAIN dir : dir[j].exists}})

\* the record add_pending_skill writes
new_pending_skill(skill_id, timestamp, code, description, name) ==
  [exists |-> TRUE, id |-> skill_id,
   name |-> IF name \in {None, ""} THEN "skill_timestamp" ELSE name,
   code |-> code, description |-> description, status |-> "pending",
   created_at |-> timestamp, notes |-> "Auto-generated suggestion"]

\* an update that assigns every argument, passed or not
update_fields_overwrite(skill, args) ==
  [skill EXCEPT !.code = args.code, !.name = args.name,
                !.description = args.description, !.notes = args.notes]

\* the assignments of update_pending_skill: "if x is not None: skill[x] = x"
update_fields(skill, args) ==
  [skill EXCEPT
     !.code = IF args.code # None THEN args.code ELSE @,
     !.name = IF args.name # None THEN args.name ELSE @,
     !.description = IF args.description # None THEN args.description ELSE @,
     !.notes = IF args.notes # None THEN args.notes ELSE @]

\* an update that writes the file whether or not the skill exists
updated_dir_upsert(dir, skill_id, args) ==
  LET skill == get_pending_skill(dir, skill_id) IN
    [dir EXCEPT ![skill_id] =
       update_fields(IF skill.exists THEN skill
                     ELSE new_pending_skill(skill_id, 0, "", "", None), args)]

\* pending_dir after update_pending_skill wrote the file
updated_dir(dir, skill_id, args) ==
  LET skill == get_pending_skill(dir, skill_id) IN
    IF ~skill.exists THEN dir
    ELSE [dir EXCEPT ![skill_id] = update_fields(skill, args)]

\* add_pending_skill(code, description, name)
P_add ==
  /\ pstore.issued < MaxPending
  /\ \E name \in {None, "skill"} :
       LET skill_id == pstore.issued + 1
           timestamp == pstore.clock + 1
           skill == new_pending_skill(skill_id, timestamp, "clean", "task", name)
       IN \* returns skill_id
          \/ pstore' = [pstore EXCEPT
                          !.dir[skill_id] = skill,
                          !.issued = skill_id, !.clock = timestamp,
                          !.live = Append(@, skill_id),
                          !.ret = [op |-> "add", id |-> skill_id, ok |-> TRUE]]
          \* open raises: returns None
          \/ pstore' = [pstore EXCEPT
                          !.issued = skill_id, !.clock = timestamp,
                          !.ret = [op |-> "add", id |-> skill_id, ok |-> FALSE]]

\* update_pending_skill(skill_id, code, name, description, notes)
P_update ==
  \E skill_id \in PendingIds :
    LET args == pstore.args
        found == get_pending_skill(pstore.dir, skill_id).exists
        ret(ok) == [op |-> "update", id |-> skill_id, ok |-> ok]
    IN \* returns False without the skill, True once the file is written
       \/ pstore' = [pstore EXCEPT
                       !.dir = updated_dir(pstore.dir, skill_id, args),
                       !.ret = ret(found)]
       \* open raises: returns False
       \/ /\ found
          /\ pstore' = [pstore EXCEPT !.ret = ret(FALSE)]

\* delete_pending_skill(skill_id)
P_delete ==
  \E skill_id \in PendingIds :
    LET ret(ok) == [op |-> "delete", id |-> skill_id, ok |-> ok] IN
      IF ~pstore.dir[skill_id].exists
      THEN \* returns False
           pstore' = [pstore EXCEPT !.ret = ret(FALSE)]
      ELSE \* os.remove, returns True
           \/ pstore' = [pstore EXCEPT
                           !.dir[skill_id] = NoRecord,
                           !.live = SelectSeq(@, LAMBDA i : i # skill_id),
                           !.ret = ret(TRUE)]
           \* os.remove raises: returns False
           \/ pstore' = [pstore EXCEPT !.ret = ret(FALSE)]

\* dir: pending_dir; issued: the ids handed out; clock: time.time(), which
\* grows from one add to the next; args: the optional arguments the caller
\* passes to update_pending_skill, drawn here; live: the ids whose add
\* returned them and whose delete has not returned True since, in the order
\* of their adds; ret: the last call and what it returned
PendingInit ==
  \E args \in UpdateArgs :
    pstore = [dir |-> [i \in PendingIds |-> NoRecord], issued |-> 0, clock |-> 0,
              args |-> args, live |-> <<>>,
              ret |-> [op |-> "none", id |-> 0, ok |-> FALSE]]

PendingIdle ==
  pstore = [dir |-> [i \in PendingIds |-> NoRecord], issued |-> MaxPending,
            clock |-> 0, args |-> NoArgs, live |-> <<>>,
            ret |-> [op |-> "none", id |-> 0, ok |-> FALSE]]

nonPendingVars ==
  <<coreVars, libVars, registry, approval, sandbox, finder, extraction, router_calls, sessions>>

add_pending_skill == P_add /\ UNCHANGED nonPendingVars
update_pending_skill_call == P_update /\ UNCHANGED nonPendingVars
delete_pending_skill == P_delete /\ UNCHANGED nonPendingVars

\* ------------------------------------------------------------------------
\* Retrieval from the skill library (SkillLibrary.find_top_skills)
\* ------------------------------------------------------------------------
\* distances of the collection's entries to the query, in tenths
Distances == {0, 3, 12, 15, 18}
\* the threshold argument, in tenths
Thresholds == {12, 15}

\* the entries of a collection, given as entry -> distance to the query
Collections == UNION {[1 .. k -> Distances] : k \in 0 .. MaxEntries}

\* collection.query(query_texts=[query], n_results=n): the ids of the n
\* nearest entries (all of them when there are fewer), nearest first; entries
\* at the same distance come in any order
query_results(distance, n) ==
  LET count == Len(distance)
      m == IF n < count THEN n ELSE count
  IN {ids \in [1 .. m -> DOMAIN distance] :
        /\ \A i, j \in 1 .. m : i # j => ids[i] # ids[j]
        /\ \A i, j \in 1 .. m : i < j => distance[ids[i]] <= distance[ids[j]]
        /\ \A e \in DOMAIN distance :
             (\A i \in 1 .. m : ids[i] # e) =>
               \A i \in 1 .. m : distance[ids[i]] <= distance[e]}

\* a filter that also keeps an entry at the threshold
under_threshold_inclusive(distance, threshold) == distance <= threshold

\* "if distance < threshold"
under_threshold(distance, threshold) == distance < threshold

\* the loop of find_top_skills over the query's results
skills_of(ids, distance, threshold) ==
  SelectSeq([i \in DOMAIN ids |-> [name |-> ids[i], distance |-> distance[ids[i]]]],
            LAMBDA skill : under_threshold(skill.distance, threshold))

\* find_top_skills(query, n, threshold)
F_find_top_skills ==
  /\ finder.pc = "new"
  /\ IF ~finder.connected
     THEN \* the collection is None
          finder' = [finder EXCEPT !.pc = "done"]
     ELSE \* the query answers; n_results must be positive
          \/ /\ finder.n > 0
             /\ \E ids \in query_results(finder.distance, finder.n) :
                  finder' = [finder EXCEPT
                               !.pc = "done", !.answered = TRUE,
                               !.skills = skills_of(ids, finder.distance,
                                                    finder.threshold)]
          \* the query raises
          \/ finder' = [finder EXCEPT !.pc = "done"]

FindInit ==
  \E distance \in Collections, n \in 0 .. MaxEntries,
     threshold \in Thresholds, connected \in BOOLEAN :
    finder = [pc |-> "new", connected |-> connected, distance |-> distance,
              n |-> n, threshold |-> threshold, answered |-> FALSE,
              skills |-> <<>>]

FindIdle ==
  finder = [pc |-> "done", connected |-> FALSE, distance |-> <<>>, n |-> 0,
            threshold |-> 0, answered |-> FALSE, skills |-> <<>>]

nonFindVars ==
  <<coreVars, libVars, registry, approval, sandbox, pstore, extraction, router_calls, sessions>>

find_top_skills == F_find_top_skills /\ UNCHANGED nonFindVars

\* ------------------------------------------------------------------------
\* Code extraction (extract_code)
\* ------------------------------------------------------------------------
\* a fenced block of the text: its fence is tagged python or not, its content
\* stands on lines of its own or on the fence's line, it has a length, it
\* contains one of 'import', 'def', 'print', 'for', 'if', '=' or none, and
\* it has surrounding whitespace or not. The fences of a text pair up as
\* written: block after block, with prose between them.
Blocks == [fence : {"python", "plain"}, newlines : BOOLEAN, len : 1 .. MaxLen,
           keyword : BOOLEAN, padded : BOOLEAN]
Texts == UNION {[1 .. k -> Blocks] : k \in 0 .. MaxBlocks}

\* no code: the empty string
NoCode == [found |-> FALSE,
           code |-> [fence |-> "plain", newlines |-> FALSE, len |-> 1,
                     keyword |-> FALSE, padded |-> FALSE]]

\* match.strip()
stripped(block) == [found |-> TRUE, code |-> [block EXCEPT !.padded = FALSE]]

\* re.findall of the four patterns, in the order of the text
python_newline_matches(text) ==
  SelectSeq(text, LAMBDA b : b.fence = "python" /\ b.newlines)
plain_newline_matches(text) ==
  SelectSeq(text, LAMBDA b : b.fence = "plain" /\ b.newlines)
python_inline_matches(text) ==
  SelectSeq(text, LAMBDA b : b.fence = "python")
generic_matches(text) == text

\* max(matches, key=len): the first of the longest
longest(matches) ==
  matches[CHOOSE i \in DOMAIN matches :
            /\ \A j \in DOMAIN matches : matches[j].len <= matches[i].len
            /\ \A j \in 1 .. (i - 1) : matches[j].len < matches[i].len]

\* the matches that contain one of the keywords
python_like(matches) == SelectSeq(matches, LAMBDA b : b.keyword)

\* extract_code after sanitize_thought_process
extract_code(text) ==
  IF text = <<>> THEN NoCode
  ELSE IF python_newline_matches(text) # <<>>
  THEN stripped(longest(python_newline_matches(text)))
  ELSE IF python_like(plain_newline_matches(text)) # <<>>
  THEN stripped(longest(python_like(plain_newline_matches(text))))
  ELSE IF python_inline_matches(text) # <<>>
  THEN stripped(longest(python_inline_matches(text)))
  ELSE IF python_like(generic_matches(text)) # <<>>
  THEN stripped(longest(python_like(generic_matches(text))))
  ELSE NoCode

E_extract_code ==
  /\ extraction.pc = "new"
  /\ extraction' = [extraction EXCEPT !.pc = "done",
                                      !.code = extract_code(extraction.text)]

ExtractInit ==
  \E text \in Texts : extraction = [pc |-> "new", text |-> text, code |-> NoCode]

ExtractIdle == extraction = [pc |-> "done", text |-> <<>>, code |-> NoCode]

nonExtractVars ==
  <<coreVars, libVars, registry, approval, sandbox, pstore, finder, router_calls, sessions>>

extract_code_call == E_extract_code /\ UNCHANGED nonExtractVars

\* ------------------------------------------------------------------------
\* Repeated classification (JarvisRouter.classify)
\* ------------------------------------------------------------------------
\* the conversation_context argument: empty or not
Contexts == {"", "Recent conversation"}

\* router.classify(text, conversation_context) with the classifier's answer
T_classify ==
  /\ Len(router_calls) < MaxCalls
  /\ \E context \in Contexts, outcome \in ClassifierOutcomes :
       router_calls' =
         Append(router_calls,
                [text |-> "hello", conversation_context |-> context,
                 outcome |-> outcome,
                 label |-> classify(router_llm, outcome)])
  /\ UNCHANGED router_llm

RouterInit == router_calls = <<>>

RouterIdle == router_calls = <<>>

\* no request is in the graph
NoRequest ==
  [node |-> END, path |-> <<>>,
   user_input |-> [keyword |-> FALSE, and_count |-> 0, comma_count |-> 0],
   response |-> NoResponse, intent_mode |-> None,
   answer |-> NoAnswer, plan |-> <<>>,
   generated_code |-> "", execution_result |-> None]

nonRouterVars ==
  <<graphVars, busVars, jobVars, parVars, req, libVars,
    registry, approval, sandbox, pstore, finder, extraction, sessions>>

classify_call == T_classify /\ UNCHANGED nonRouterVars

\* ------------------------------------------------------------------------
\* The status callback of the websocket requests (ws_voice, the engine's
\* _task_callback field, aggregate_parallel_results)
\* ------------------------------------------------------------------------
\* two websocket connections served by the one JarvisEngine of the app
WsClients == {"client_a", "client_b"}
TaskStatuses == {"running", "complete"}

\* ws_voice on a text input: engine._task_callback = task_status_callback,
\* a closure over this connection's websocket
V_register(c) ==
  /\ sessions.request[c].pc = "connected"
  /\ sessions' = [sessions EXCEPT !.task_callback = c,
                                  !.request[c].pc = "graph"]

\* aggregate_parallel_results: status_callback = engine._task_callback
V_aggregate(c) ==
  /\ sessions.request[c].pc = "graph"
  /\ sessions' = [sessions EXCEPT
                    !.request[c].pc = "workers",
                    !.request[c].status_callback = sessions.task_callback]

\* a worker of the request: await status_callback(task['id'], status)
V_status(c) ==
  /\ sessions.request[c].pc = "workers"
  /\ Len(sessions.delivered) < MaxUpdates
  /\ \E status \in TaskStatuses :
       sessions' = [sessions EXCEPT !.delivered =
         Append(@, [request |-> c, status |-> status,
                    client |-> sessions.request[c].status_callback])]

\* the graph of the request ends; ws_voice waits for the next input
V_done(c) ==
  /\ sessions.request[c].pc = "workers"
  /\ sessions' = [sessions EXCEPT !.request[c].pc = "connected"]

NewSessions(pc) ==
  [task_callback |-> None,
   request |-> [c \in WsClients |-> [pc |-> pc, status_callback |-> None]],
   delivered |-> <<>>]

\* JarvisEngine.__init__: self._task_callback = None; both clients connected
SessionInit == sessions = NewSessions("connected")

SessionIdle == sessions = NewSessions("closed")

nonSessionVars ==
  <<coreVars, libVars, registry, approval, sandbox, pstore, finder, extraction,
    router_calls>>

ws_register == (\E c \in WsClients : V_register(c)) /\ UNCHANGED nonSessionVars
ws_aggregate == (\E c \in WsClients : V_aggregate(c)) /\ UNCHANGED nonSessionVars
ws_status == (\E c \in WsClients : V_status(c)) /\ UNCHANGED nonSessionVars
ws_done == (\E c \in WsClients : V_done(c)) /\ UNCHANGED nonSessionVars

\* ------------------------------------------------------------------------
\* Specifications
\* ------------------------------------------------------------------------
\* none of the stores, the sandbox, the retrieval, the extraction and the
\* router is called on its own
UtilIdle ==
  /\ RegistryIdle /\ ApprovalIdle /\ SandboxIdle /\ PendingIdle
  /\ FindIdle /\ ExtractIdle /\ RouterIdle /\ SessionIdle

\* the graph is idle in this specification
GraphIdle ==
  /\ ruff = FALSE
  /\ state = initial_state("")
  /\ node = END
  /\ visits = [n \in {"linter", "executor", "think_agent"} |-> 0]
  /\ steps = 0

\* no verification job exists
JobIdle ==
  /\ job = [pc |-> "done", phase |-> "start", code |-> "", skill_name |-> "Unknown",
            final_code |-> "", execution_error |-> None, lint_error |-> None]
  /\ pending = NoPending
  /\ library = [n \in SkillNames |-> NoSkill]

InitBus == BusInit /\ GraphIdle /\ JobIdle /\ ParIdle /\ ReqIdle /\ LibIdle /\ UtilIdle

NextBus == publish \/ stream_subscribe \/ stream_yield \/ stream_resume \/ stream_cancel

SpecBus == InitBus /\ [][NextBus]_vars

\* the bus with any number of streams per job id
NextShared ==
  publish \/ shared_stream_subscribe \/ stream_yield \/ stream_resume \/ stream_cancel

SpecShared == InitBus /\ [][NextShared]_vars

InitJob == JobInit /\ BusInit /\ ParIdle /\ ReqIdle /\ LibIdle /\ UtilIdle

NextJob ==
  \/ J_start \/ J_chain_start \/ J_linter \/ J_executor \/ J_think_agent
  \/ J_finalize \/ J_save \/ J_except
  \/ reject_skill
  \/ job_stream_subscribe \/ job_stream_yield \/ job_stream_resume
  \/ job_stream_cancel

SpecJob == InitJob /\ [][NextJob]_vars

InitPar == ParInit /\ GraphIdle /\ BusInit /\ JobIdle /\ ReqIdle /\ LibIdle /\ UtilIdle

NextPar ==
  \/ plan_parallel_tasks \/ aggregate_dispatch
  \/ worker_start \/ worker_generate \/ worker_execute
  \/ aggregate_gather \/ aggregate_synthesize

SpecPar == InitPar /\ [][NextPar]_vars

InitReq == ReqInit /\ GraphIdle /\ BusInit /\ JobIdle /\ ParIdle /\ LibIdle /\ UtilIdle

NextReq ==
  \/ route_query \/ speed_response \/ build_context
  \/ request_plan_parallel_tasks \/ request_reason_and_code
  \/ request_execute_code \/ request_aggregate_parallel_results

SpecReq == InitReq /\ [][NextReq]_vars

InitLib == LibInit /\ GraphIdle /\ BusInit /\ JobIdle /\ ParIdle /\ ReqIdle /\ UtilIdle

NextLib == save_skill_upsert \/ save_skill_write

SpecLib == InitLib /\ [][NextLib]_vars

CoreIdle == GraphIdle /\ BusInit /\ JobIdle /\ ParIdle /\ ReqIdle

InitStore ==
  /\ StoreInit /\ LibIdle /\ CoreIdle
  /\ ApprovalIdle /\ SandboxIdle /\ PendingIdle /\ FindIdle /\ ExtractIdle /\ RouterIdle
  /\ SessionIdle

NextStore ==
  \/ library_save_skill \/ library_delete_skill
  \/ registry_save_skill \/ delete_library_skill \/ registry_restart

SpecStore == InitStore /\ [][NextStore]_vars

InitApproval ==
  /\ ApprovalInit /\ LibIdle /\ CoreIdle
  /\ RegistryIdle /\ SandboxIdle /\ PendingIdle /\ FindIdle /\ ExtractIdle /\ RouterIdle
  /\ SessionIdle

NextApproval == approval_reason_and_code \/ approval_execute_code \/ approval_save

SpecApproval == InitApproval /\ [][NextApproval]_vars

InitSandbox ==
  /\ SandboxInit /\ LibIdle /\ CoreIdle
  /\ RegistryIdle /\ ApprovalIdle /\ PendingIdle /\ FindIdle /\ ExtractIdle /\ RouterIdle
  /\ SessionIdle

NextSandbox == sandbox_construct \/ sandbox_execute \/ sandbox_execute_with_packages

SpecSandbox == InitSandbox /\ [][NextSandbox]_vars

InitPending ==
  /\ PendingInit /\ LibIdle /\ CoreIdle
  /\ RegistryIdle /\ ApprovalIdle /\ SandboxIdle /\ FindIdle /\ ExtractIdle /\ RouterIdle
  /\ SessionIdle

NextPending == add_pending_skill \/ update_pending_skill_call \/ delete_pending_skill

SpecPending == InitPending /\ [][NextPending]_vars

InitFind ==
  /\ FindInit /\ LibIdle /\ CoreIdle
  /\ RegistryIdle /\ ApprovalIdle /\ SandboxIdle /\ PendingIdle /\ ExtractIdle /\ RouterIdle
  /\ SessionIdle

NextFind == find_top_skills

SpecFind == InitFind /\ [][NextFind]_vars

InitExtract ==
  /\ ExtractInit /\ LibIdle /\ CoreIdle
  /\ RegistryIdle /\ ApprovalIdle /\ SandboxIdle /\ PendingIdle /\ FindIdle /\ RouterIdle
  /\ SessionIdle

NextExtract == extract_code_call

SpecExtract == InitExtract /\ [][NextExtract]_vars

InitRouter ==
  /\ RouterInit /\ router_llm \in BOOLEAN /\ req = NoRequest
  /\ GraphIdle /\ BusInit /\ JobIdle /\ ParIdle /\ LibIdle
  /\ RegistryIdle /\ ApprovalIdle /\ SandboxIdle /\ PendingIdle /\ FindIdle /\ ExtractIdle
  /\ SessionIdle

NextRouter == classify_call

SpecRouter == InitRouter /\ [][NextRouter]_vars

InitSession == SessionInit /\ CoreIdle /\ LibIdle /\ RegistryIdle /\ ApprovalIdle
               /\ SandboxIdle /\ PendingIdle /\ FindIdle /\ ExtractIdle /\ RouterIdle

NextSession == ws_register \/ ws_aggregate \/ ws_status \/ ws_done

SpecSession == InitSession /\ [][NextSession]_vars

\* a run of the verification graph on its own
lint_code == G_lint_code /\ UNCHANGED nonGraphVars
execute_code == G_execute_code /\ UNCHANGED nonGraphVars
reason_and_code == G_reason_and_code /\ UNCHANGED nonGraphVars

Init == GraphInit /\ BusInit /\ JobIdle /\ ParIdle /\ ReqIdle /\ LibIdle /\ UtilIdle

Next == lint_code \/ execute_code \/ reason_and_code

Spec == Init /\ [][Next]_vars

\* graph.ainvoke runs the next stage until a conditional edge returns END
FairSpec == Init /\ [][Next]_vars /\ WF_vars(Next)

\* ------------------------------------------------------------------------
\* Properties of the verification graph (checked under Spec)
\* ------------------------------------------------------------------------
HasMsg(kind) == \E i \in DOMAIN state.messages : state.messages[i].kind = kind

\* C1: in one run of the verification graph the Code Generator stage
\* (think_agent) runs at most max_retries + 1 = 4 times, whatever the lint
\* and execution outcomes are.
C1_GenerationAttemptsBounded == visits["think_agent"] <= max_retries + 1

\* a run in which every attempt failed and the Code Generator ran twice
C1_Witness ==
  /\ node = END
  /\ state.retry_count = max_retries
  /\ visits["think_agent"] = 2
  /\ visits["linter"] + visits["executor"] = max_retries

\* C2: retry_count never exceeds the configured maximum (3), whatever mix
\* of lint failures and execution failures occurs.
C2_RetryCountBounded == state.retry_count <= max_retries

\* the maximum is reached by a mix of lint and execution failures
C2_Witness ==
  /\ state.retry_count = max_retries
  /\ HasMsg("lint_feedback")
  /\ HasMsg("exec_feedback")

\* the Linter or the Executor reports a failed attempt in this step
FailedAttempt ==
  \/ node = "linter" /\ node' # "linter" /\ state'.lint_error # None
  \/ node = "executor" /\ node' \notin {"executor", RAISED}
       /\ state'.execution_error # None

\* C3: whenever the Executor or the Linter reports a failed attempt while
\* retry_count, as it stood before that failure, is below max_retries, the
\* graph increments retry_count by one and re-enters the Code Generator; the
\* loop ends only on success or when retry_count had already reached
\* max_retries before the failing attempt.
C3_RetryWhileBelowMax ==
  [][ /\ (FailedAttempt /\ state.retry_count < max_retries)
           => (state'.retry_count = state.retry_count + 1 /\ node' = "think_agent")
      /\ (node \in {"linter", "executor"} /\ node' = END)
           => (~FailedAttempt \/ state.retry_count >= max_retries) ]_vars

\* C11: an exception raised inside a stage (by the code-generation call of
\* the Code Generator or by the sandbox call of the Executor) is caught at the
\* stage boundary and recorded as an error field of the state; it never
\* propagates out of the graph run to the caller.
C11_NoStageExceptionEscapes == node # RAISED

\* the Executor ran in this step and the sandbox handed back a result
Executed == node = "executor" /\ node' \notin {"executor", RAISED}

\* C12: when the sandbox result contains an error-signature substring
\* although the process exit code is zero, the Executor classifies the attempt
\* as failed: execution_error is set and retry_count increases by exactly 1.
C12_MarkerWithZeroExitFails ==
  [][ (Executed /\ state'.execution_result = "output with Traceback")
        => /\ state'.execution_error = "output with Traceback"
           /\ state'.retry_count = state.retry_count + 1 ]_vars

\* a zero-exit run whose output carries a stack-trace marker was classified
\* as failed and sent back to the Code Generator
C12_Witness ==
  /\ node = "think_agent"
  /\ state.execution_result = "output with Traceback"
  /\ state.execution_error = "output with Traceback"
  /\ state.retry_count = 1

\* the failure that sent the graph to the Code Generator: the linter clears
\* lint_error on success, so a set lint_error means the linter failed last
LastError(st) == IF st.lint_error # None THEN st.lint_error ELSE st.execution_error

\* C13: after a failed execution attempt or a failed lint attempt, the next
\* Code Generator call receives both the failing code and its error text as
\* feedback, including on the first retry of a verification run, whose
\* initial code was supplied by the caller.
C13_FeedbackHasCodeAndError ==
  [][ (node = "think_agent" /\ visits'["think_agent"] = visits["think_agent"] + 1)
        => LET recent == recent_messages(state.messages) IN
             /\ \E i \in DOMAIN recent : recent[i].code = state.generated_code
             /\ \E i \in DOMAIN recent : recent[i].error = LastError(state) ]_vars

\* C14: an execution whose process ends with a non-zero exit code is
\* classified by the Executor as a failed attempt (execution_error set, one
\* retry consumed), whether or not its output contains an error-signature
\* substring.
C14_NonZeroExitFails ==
  [][ (Executed /\ state'.execution_result
                     \in {"exit code 1", "exit code 1 with Traceback"})
        => /\ state'.execution_error # None
           /\ state'.retry_count = state.retry_count + 1 ]_vars

\* C15: a sandboxed execution that exceeds its timeout is force-killed and
\* its result, partial output included, is classified as a failed attempt
\* that drives the retry loop; it is never reported as a successful
\* execution.
C15_TimeoutFails ==
  [][ (Executed /\ state'.execution_result = "timed out")
        => /\ state'.execution_error # None
           /\ state'.retry_count = state.retry_count + 1
           /\ (state.retry_count + 1 < max_retries => node' = "think_agent") ]_vars

\* ------------------------------------------------------------------------
\* Properties of the event bus (checked under SpecBus)
\* ------------------------------------------------------------------------
\* terminal event: stage COMPLETED or FAILED with type STEP_COMPLETE or ERROR
IsTerminalEvent(e) ==
  /\ e.stage = "COMPLETED" \/ e.stage = "FAILED"
  /\ e.type = "STEP_COMPLETE" \/ e.type = "ERROR"

IsPrefix(a, b) == Len(a) <= Len(b) /\ \A i \in 1 .. Len(a) : a[i] = b[i]

StreamOrdered(s) ==
  LET y == streams[s].yielded
      q == streams[s].queue
  IN \* what was yielded is what was put on the stream's channel, in order
     \* and without gaps
     /\ IsPrefix(y, queues[q])
     \* and that is a run of consecutive events published to the job id
     /\ \A i \in 1 .. Len(y) : y[i].job_id = streams[s].job_id
     /\ \A i \in 1 .. Len(y) - 1 :
          ~ \E e \in {published[k] : k \in DOMAIN published} :
               /\ e.job_id = streams[s].job_id
               /\ y[i].timestamp < e.timestamp
               /\ e.timestamp < y[i + 1].timestamp
     \* nothing is yielded after a terminal event
     /\ \A i \in 1 .. Len(y) - 1 : ~IsTerminalEvent(y[i])
     /\ streams[s].pc = "waiting" => \A i \in 1 .. Len(y) : ~IsTerminalEvent(y[i])
     \* the stream stops exactly on a terminal event and removes the channel
     /\ streams[s].pc = "done" =>
          /\ Len(y) > 0
          /\ IsTerminalEvent(y[Len(y)])
          /\ channels[streams[s].job_id] # q

TerminalCount ==
  Cardinality({i \in DOMAIN published : IsTerminalEvent(published[i])})

\* C5: every run of run_verification_job publishes exactly one terminal
\* event on each of its outcomes (verified and saved, verification failed
\* after retries, library save failed, exception raised inside the job) and
\* publishes no event after it.
C5_OneTerminalEvent ==
  /\ job.pc # "done" => TerminalCount = 0
  /\ job.pc = "done" =>
       /\ TerminalCount = 1
       /\ IsTerminalEvent(published[Len(published)])

\* the job ended after a failed library save that followed a retry
C5_Witness ==
  /\ job.pc = "done"
  /\ state.retry_count > 0
  /\ \E i \in DOMAIN published :
        published[i].stage = "COMPLETED" /\ published[i].type = "STEP_START"
  /\ published[Len(published)].stage = "FAILED"

\* ------------------------------------------------------------------------
\* Properties of the parallel path (checked under SpecPar)
\* ------------------------------------------------------------------------
\* the aggregator is past asyncio.gather with the workers' results
FannedIn == results # <<>>

Ids(seq) == {seq[i].id : i \in DOMAIN seq}

Distinct(seq) == \A i, j \in DOMAIN seq : i # j => seq[i].id # seq[j].id

Terminal(w) == w.pc = "returned" /\ w.status \in {"complete", "failed"}

\* C6: after fan-in there is exactly one worker result per SubTask of the
\* plan: len(results) == len(plan) and the result ids are exactly the plan's
\* SubTask ids with no duplicates and no omissions, for every plan and every
\* combination of worker outcomes.
C6_OneResultPerSubTask ==
  FannedIn =>
    /\ Len(results) = Len(plan)
    /\ Ids(results) = Ids(plan)
    /\ Distinct(results)

\* C7: a worker's failure (no code extracted, sandbox error, or an exception
\* raised inside the worker) never cancels or blocks its siblings: every
\* sibling still runs to its own terminal status and its result is included
\* at fan-in.
C7_SiblingResultsIncluded ==
  \A i \in DOMAIN workers :
     (par_pc # "gather" /\ Terminal(workers[i])) =>
        /\ i \in DOMAIN results
        /\ results[i] = WorkerResult(i)

\* C8: the synthesis step never starts while any worker of the plan is still
\* non-terminal: it begins only after all workers have returned with status
\* complete or failed.
C8_FanInBarrier ==
  par_pc \in {"synthesis", "done"} =>
    /\ DOMAIN workers = DOMAIN plan
    /\ \A i \in DOMAIN plan : Terminal(workers[i])

\* synthesis begins over a plan with a failed and a complete worker
C8_Witness ==
  /\ par_pc = "synthesis"
  /\ \E i, j \in DOMAIN workers :
        /\ workers[i].status = "failed"
        /\ workers[j].status = "complete"
        /\ workers[i].retry_count = worker_max_retries

\* C9: for each worker, when a status callback is set, the callback is
\* invoked with 'running' before any other status and then exactly once with
\* the terminal status that equals the status of the worker's returned
\* result, on every exit path of the worker.
C9_CallbackPerTransition ==
  task_callback =>
    \A i \in DOMAIN workers :
       /\ workers[i].pc # "created" =>
            /\ Len(workers[i].calls) >= 1
            /\ workers[i].calls[1] = "running"
       /\ workers[i].pc \notin {"returned"} => Len(workers[i].calls) <= 1
       /\ workers[i].pc = "returned" =>
            workers[i].calls = <<"running", workers[i].status>>

\* C10: every plan emitted by the Task Planner has pairwise-distinct SubTask
\* ids, and the ids carried by the worker results at fan-in are those same
\* ids, unchanged.
C10_UniqueStableIds ==
  /\ Distinct(plan)
  /\ FannedIn =>
       /\ Len(results) = Len(plan)
       /\ \A i \in DOMAIN plan : results[i].id = plan[i].id

\* ------------------------------------------------------------------------
\* Properties of the request graph and the router (checked under SpecReq)
\* ------------------------------------------------------------------------
\* the stage has run at least once
Visited(n) == \E i \in DOMAIN req.path : req.path[i] = n

\* the sandbox result of the request reports a failed execution
FailedExecution(result) == result \in DockerResults \ {"output"}

\* C16: in the request graph built by JarvisEngine.build the sequential path
\* runs the Code Generator (think_agent) and then the Executor, and a failed
\* execution leads back to the Code Generator while retries remain instead
\* of ending the request.
C16_SequentialRetryEdge ==
  [][ /\ (req.node = "think_agent" /\ req'.node \notin {"think_agent", RAISED})
           => req'.node = "executor"
      /\ (req.node = "executor" /\ req'.node # "executor"
             /\ FailedExecution(req'.execution_result))
           => req'.node = "think_agent" ]_vars

\* plan_parallel_tasks has returned
Planned == req.answer # NoAnswer

\* the answer is one of the fallback cases: a parse failure, a malformed
\* subtask, parallel = false or fewer than 2 subtasks
FallbackAnswer ==
  \/ req.answer.kind # "json"
  \/ ~req.answer.parallel
  \/ Len(req.answer.subtasks) < 2

\* C17: plan_parallel_tasks returns either the empty plan or a plan of at
\* least 2 SubTasks: on a parse failure, a malformed subtask, parallel=false
\* or fewer than 2 subtasks it returns the empty plan without raising, and
\* the request then continues on the sequential path (the parallel executor
\* is entered only with 2 or more SubTasks).
C17_PlanEmptyOrParallel ==
  /\ Planned => (req.plan = <<>> \/ Len(req.plan) >= 2)
  /\ (Planned /\ FallbackAnswer) =>
       /\ req.plan = <<>>
       /\ req.path[Len(req.path)] = "parallel_planner" => req.node = "think_agent"
       /\ req.node # "parallel_executor" /\ ~Visited("parallel_executor")
  /\ (req.node = "parallel_executor" \/ Visited("parallel_executor")) =>
       Len(req.plan) >= 2

\* a subtask without "id" sent the request to the Code Generator, and so
\* did an answer with a single subtask
C17_Witness ==
  /\ req.node = "executor"
  /\ Visited("parallel_planner")
  /\ req.plan = <<>>
  /\ \/ req.answer.kind = "malformed_subtask" /\ Len(req.answer.subtasks) >= 2
     \/ req.answer.kind = "json" /\ req.answer.parallel
          /\ Len(req.answer.subtasks) = 1

\* the classifier's answer is exactly one of the two labels
WellFormed(outcome) ==
  ~outcome.raised /\ outcome.content \in {<<"speed">>, <<"complex">>}

\* C18: JarvisRouter.classify returns 'complex' whenever the classifier is
\* uninitialised, raises, or returns output that is not a well-formed
\* 'speed' or 'complex' label; it never raises and never returns a value
\* other than 'speed' or 'complex'.
C18_ClassifyFailsSafe ==
  Visited("router") =>
    /\ req.intent_mode \in {"speed", "complex"}
    /\ (~router_llm \/ ~WellFormed(req.response)) => req.intent_mode = "complex"

\* ------------------------------------------------------------------------
\* Properties of the skill library (checked under SpecLib)
\* ------------------------------------------------------------------------
\* the calls of save_skill that put this name into the collection, in order
UpsertsOf(name) == SelectSeq(upserts, LAMBDA k : saves[k].name = name)

Entries(name) == {r \in collection : r.id = name}

\* C19: saving a SolutionEntry whose name already exists overwrites it:
\* after any sequence of saves the registry holds exactly one entry per
\* distinct name, carrying the last saved code, and never a second record
\* under a suffixed name.
C19_OneEntryPerName ==
  /\ \A r \in collection : r.id \in SkillNames
  /\ \A name \in SkillNames :
       LET ups == UpsertsOf(name) IN
         IF ups = <<>>
           THEN Entries(name) = {}
           ELSE Entries(name) = {[id |-> name, code |-> saves[ups[Len(ups)]].code]}

\* one name was saved twice with different code and holds the second code
C19_Witness ==
  \E name \in SkillNames :
     /\ Len(UpsertsOf(name)) = 2
     /\ saves[UpsertsOf(name)[1]].code # saves[UpsertsOf(name)[2]].code
     /\ \A k \in SaveIds : saves[k].pc = "done"
     /\ Cardinality(Entries(name)) = 1
     /\ skill_files[name].code = saves[UpsertsOf(name)[2]].code

\* C20: when two saves of the same entry name run concurrently, after both
\* have completed the index entry and the persisted file of that name hold
\* the code of the same writer: last-writer-wins leaves index and file
\* consistent.
C20_IndexMatchesFile ==
  \A name \in SkillNames :
     (/\ \E k \in SaveIds : saves[k].name = name
      /\ \A k \in SaveIds : saves[k].name = name => saves[k].pc = "done")
       => /\ skill_files[name].exists
          /\ Entries(name) = {[id |-> name, code |-> skill_files[name].code]}

\* ------------------------------------------------------------------------
\* Properties of the skill stores (checked under SpecStore)
\* ------------------------------------------------------------------------
\* C21: after any sequence of saves and deletes, an entry is in the index
\* if and only if its persisted file exists, in the skill library (the
\* collection and the .md files) and in the registry (the tools index and
\* the .py files of library_dir).
C21_IndexedIffFileExists ==
  \A name \in SkillNames :
    /\ (Entries(name) # {}) <=> skill_files[name].exists
    /\ (name \in registry.tools) <=> (registry.library_dir[name] # NoPy)

\* ------------------------------------------------------------------------
\* Properties of the skill deduplication (checked under SpecApproval)
\* ------------------------------------------------------------------------
\* the generated code, trimmed, is the trimmed code of a retrieved skill
RetrievedAt(i) ==
  /\ i \in DOMAIN approval.relevant_skills
  /\ approval.generated_code # ""
  /\ strip(approval.relevant_skills[i]) = strip(approval.generated_code)

\* C22: a generated solution whose trimmed code equals the code of any
\* skill retrieved for the request is not saved, whichever position that
\* skill has in the retrieved list.
C22_RetrievedCodeIsNotSaved ==
  (approval.pc = "done" /\ \E i \in DOMAIN approval.relevant_skills : RetrievedAt(i))
    => ~approval.saved

\* ------------------------------------------------------------------------
\* Properties of the job runner and its consumers (checked under SpecJob)
\* ------------------------------------------------------------------------
\* the next step of run_verification_job
JobStep ==
  \/ J_start \/ J_chain_start \/ J_linter \/ J_executor \/ J_think_agent
  \/ J_finalize \/ J_save \/ J_except

\* C23: a dispatched job can always take its next step, up to its
\* finalization, whatever the consumer of its stream does (never subscribed,
\* subscribed, disconnected in the middle); the job only takes its failure
\* path when a stage raised, never because of a publish.
C23_JobRunsWithoutConsumer ==
  /\ job.pc # "done" => ENABLED JobStep
  /\ job.pc = "except" => node = RAISED

\* the consumer disconnected after it saw an event and before the job ended
\* its work, and the job finalized with a save
C23_Witness ==
  /\ job.pc = "done"
  /\ streams[JobStream].pc = "cancelled"
  /\ Len(streams[JobStream].yielded) >= 1
  /\ Len(published) > Len(queues[JobStream])
  /\ published[Len(published)].stage = "COMPLETED"
  /\ published[Len(published)].type = "STEP_COMPLETE"

\* ------------------------------------------------------------------------
\* Properties of the sandbox (checked under SpecSandbox)
\* ------------------------------------------------------------------------
\* the positions of the calls of a method in sandbox.calls
CallsOf(method) == {i \in DOMAIN sandbox.calls : sandbox.calls[i].method = method}

\* C24: execute_with_packages installs exactly the packages package_map maps
\* from the import names the scan finds in the code, each once, none for an
\* unmapped import, and calls execute once, after every install, whether or
\* not an install failed.
C24_InstallsMappedThenRunsOnce ==
  sandbox.call = "execute_with_packages" =>
    /\ {sandbox.calls[i].arg : i \in CallsOf("install_package")}
         = {package_map[imp] : imp \in imports(sandbox.code) \cap DOMAIN package_map}
    /\ \A i, j \in CallsOf("install_package") :
         i # j => sandbox.calls[i].arg # sandbox.calls[j].arg
    /\ CallsOf("execute") = {Len(sandbox.calls)}

\* two statements import pandas under two names: it is installed once, the
\* install failed and the code ran
C24_Witness ==
  /\ sandbox.call = "execute_with_packages"
  /\ sandbox.container
  /\ {"pandas", "pd"} \subseteq imports(sandbox.code)
  /\ Len(sandbox.calls) = 2
  /\ sandbox.calls[1].result = "failed"
  /\ sandbox.calls[2].method = "execute"
  /\ sandbox.calls[2].result = "output"

\* C25: constructing DockerSandbox when the client cannot be created does
\* not raise; the sandbox is then not connected (container is None) and a
\* later execute returns an error string.
C25_ConstructionDoesNotRaise ==
  (sandbox.pc # "new" /\ sandbox.docker = "client raises") =>
    /\ sandbox.pc = "ready"
    /\ ~sandbox.container
    /\ sandbox.call = "execute" => sandbox.result = "not connected"

\* ------------------------------------------------------------------------
\* Properties of the pending store (checked under SpecPending)
\* ------------------------------------------------------------------------
\* the value a field has after an update with this argument
Passed(old, arg) == IF arg # None THEN arg ELSE old

RECURSIVE Reversed(_)
Reversed(seq) ==
  IF seq = <<>> THEN <<>> ELSE Append(Reversed(Tail(seq)), Head(seq))

Found == {finder.skills[i].name : i \in DOMAIN finder.skills}

TierOf(b) ==
  IF b.fence = "python" /\ b.newlines THEN 1
  ELSE IF b.fence = "plain" /\ b.newlines THEN 2
  ELSE IF b.fence = "python" THEN 3
  ELSE 4

\* the blocks of the highest tier that has a block in the text
BestTier(text) ==
  SelectSeq(text, LAMBDA b : \A i \in DOMAIN text : TierOf(b) <= TierOf(text[i]))

\* C29: of several fenced blocks of the same tier extract_code returns the
\* longest (trimmed), wherever it stands; a block of a lower tier is
\* returned only when no block of a higher tier exists; without a block the
\* result is the empty string.
C29_LongestBlockOfBestTier ==
  extraction.pc = "done" =>
    IF extraction.text = <<>> THEN extraction.code = NoCode
    ELSE /\ extraction.code.found
         /\ \E i \in DOMAIN BestTier(extraction.text) :
              /\ extraction.code = stripped(BestTier(extraction.text)[i])
              /\ \A j \in DOMAIN BestTier(extraction.text) :
                   BestTier(extraction.text)[j].len <= BestTier(extraction.text)[i].len

VisitsBounded ==
  /\ steps <= 8
  /\ visits["linter"] <= 3
  /\ visits["executor"] <= 3
  /\ visits["think_agent"] <= 2

C31_GraphReachesEnd ==
  /\ []VisitsBounded
  /\ <>(node = END)

\* ------------------------------------------------------------------------
\* C32: the executor is entered only by the step of a linter visit that
\* passed on the code the executor will run (lint_error None, the code
\* unchanged, and clean whenever ruff is installed), and a think_agent visit
\* is followed by the linter, never directly by the executor or END.
\* ------------------------------------------------------------------------
EntersExecutor == node' = "executor" /\ steps' # steps

C32_ExecutorOnlyAfterLintPass ==
  [][ /\ EntersExecutor =>
           /\ node = "linter"
           /\ state'.lint_error = None
           /\ state'.generated_code = state.generated_code
           /\ (ruff => state'.generated_code # "dirty")
      /\ (node = "think_agent" => node' \in {"linter", RAISED}) ]_vars

\* the executor is about to run code that think_agent wrote and ruff passed
C32_Witness ==
  /\ node = "executor"
  /\ ruff
  /\ visits["think_agent"] = 1
  /\ visits["linter"] = 2
  /\ state.lint_error = None
  /\ state.generated_code = "clean"

\* ------------------------------------------------------------------------
\* C33: a step of run_verification_job removes the pending skill only when
\* it is the save step and the library save succeeded; the finalization of
\* a failed verification writes the final code and the error into a pending
\* skill that still exists; every other step of the job (save failed,
\* exception handler, the stages) leaves the pending skill as it is.
\* ------------------------------------------------------------------------
StepOfJob == job' # job

SaveSucceeded ==
  /\ job.pc = "save"
  /\ library'[job.skill_name] = job.final_code
  /\ published'[Len(published')].stage = "COMPLETED"
  /\ published'[Len(published')].type = "STEP_COMPLETE"

VerificationFailed == state.lint_error # None \/ state.execution_error # None

C34_WorkerBoundedAndReturns ==
  \A i \in DOMAIN workers :
    /\ workers[i].gens <= worker_max_retries + 1
    /\ workers[i].execs <= worker_max_retries + 1
    /\ workers[i].pc # "raised"
    /\ workers[i].pc = "returned" => workers[i].status \in {"complete", "failed"}

\* ------------------------------------------------------------------------
\* C35: a finished job's last event is COMPLETED/STEP_COMPLETE only if the
\* graph ended on a linter visit that passed followed by an executor visit
\* that reported no error, and the library holds the job's final code under
\* the job's skill name; in every other case the last event is FAILED/ERROR
\* and the job has written nothing to the library.
\* ------------------------------------------------------------------------
LastEvent == published[Len(published)]

VerifiedAndSaved ==
  /\ node = END
  /\ visits["linter"] > 0 /\ state.lint_error = None
  /\ visits["executor"] > 0 /\ state.execution_error = None
  /\ library[job.skill_name] = job.final_code

C35_CompletedOnlyWhenVerifiedAndSaved ==
  job.pc = "done" =>
    /\ (LastEvent.stage = "COMPLETED" /\ LastEvent.type = "STEP_COMPLETE")
         => VerifiedAndSaved
    /\ ~(LastEvent.stage = "COMPLETED" /\ LastEvent.type = "STEP_COMPLETE")
         => /\ LastEvent.stage = "FAILED" /\ LastEvent.type = "ERROR"
            /\ \A n \in SkillNames : library[n] = NoSkill

\* the job completed with code that think_agent repaired after ruff had
\* rejected the submitted code
C35_Witness ==
  /\ job.pc = "done"
  /\ LastEvent.stage = "COMPLETED" /\ LastEvent.type = "STEP_COMPLETE"
  /\ ruff
  /\ job.code = "dirty"
  /\ job.final_code = "clean"
  /\ visits["executor"] = 1
  /\ VerifiedAndSaved

\* ------------------------------------------------------------------------
\* C36: the consumer's stream of a job ends with the job's terminal event
\* in every interleaving, also when the job published, or finished, before
\* the consumer subscribed: a subscribed consumer is never left waiting on an
\* empty queue by a job that has already finished, and a stream that ended
\* by itself ended on the job's terminal event.
\* ------------------------------------------------------------------------
C36_ConsumerGetsTerminalEvent ==
  LET consumer == streams[JobStream] IN
    /\ (consumer.pc = "waiting" /\ job.pc = "done") =>
          qhead[consumer.queue] < Len(queues[consumer.queue])
    /\ consumer.pc = "done" =>
          /\ job.pc = "done"
          /\ consumer.yielded[Len(consumer.yielded)] = published[Len(published)]

\* ------------------------------------------------------------------------
\* C37: the teardown of one stream of a job id (terminal event seen, or
\* client disconnect) removes only that stream's own channel: every other
\* active stream of the job id keeps a registered channel, so the events
\* published for the job from then on, the terminal event included, still
\* reach it.
\* ------------------------------------------------------------------------
C37_TeardownKeepsOtherStreams ==
  \A s \in StreamIds :
    Active(s) => channels[streams[s].job_id] = streams[s].queue

\* ------------------------------------------------------------------------
\* C38: with two requests in flight on the same engine, every status update
\* of a request's workers is delivered to the callback that was registered
\* for that request, never to the other client's.
\* ------------------------------------------------------------------------
C38_StatusGoesToOwnClient ==
  \A i \in DOMAIN sessions.delivered :
    sessions.delivered[i].client = sessions.delivered[i].request

\* ------------------------------------------------------------------------
\* C39: a pending skill that was rejected (deleted) before its verification
\* job started or while the job runs is never saved to the library by that
\* job: once the pending skill is gone, no step of the unfinished job
\* changes the library.
\* ------------------------------------------------------------------------
Rejected == ~pending.exists /\ job.pc # "done"

C39_RejectedSkillNotSaved == [][Rejected => library' = library]_vars

\* ------------------------------------------------------------------------
\* C40: a verification job never saves a skill with empty code: no library
\* entry holds the empty string, and a job whose final code is empty does
\* not end with COMPLETED.
\* ------------------------------------------------------------------------
C40_EmptyCodeNotSaved ==
  /\ \A n \in SkillNames : library[n] # ""
  /\ (job.pc = "done" /\ job.final_code = "") => LastEvent.stage # "COMPLETED"

====
